---- MODULE Spec2Model ----
(***************************************************************************)
(* A model of generate-index.js (the zip-aware variant): the walk over the *)
(* source repository, the entity handlers, the media rewriter, the Program *)
(* package unpacker and the dependency aggregator.                         *)
(*                                                                         *)
(* Strings are sequences of one-character strings, so that the path and    *)
(* name conversions of the code (join, dirname, basename, sanitize, strip) *)
(* are computed character by character as Node computes them.  A helper   *)
(* that takes one string is a function XOf on strings, so that its value   *)
(* for a string is computed once; X(p) is XOf[p].                          *)
(***************************************************************************)
EXTENDS Integers, Sequences, FiniteSets, TLC

(***************************************************************************)
(* Generic helpers on strings                                              *)
(***************************************************************************)
\* a function on 1..n as the sequence of its values, each computed once
Tuple(f) == f \o <<>>

\* a function on any finite set with its values, each computed once
Map(f) == f @@ <<>>

\* the element of a set of one element.  Only({e(x) : x \in {v}}) is e(v),
\* where v is computed once, before e
Only(S) == CHOOSE y \in S : TRUE

Last(s) == s[Len(s)]

Front(s) == SubSeq(s, 1, Len(s) - 1)

EndsWith(s, suf) ==
  /\ Len(s) >= Len(suf)
  /\ SubSeq(s, Len(s) - Len(suf) + 1, Len(s)) = suf

StartsWith(s, pre) ==
  /\ Len(s) >= Len(pre)
  /\ SubSeq(s, 1, Len(pre)) = pre

\* String.prototype.toLowerCase on the letters the model uses
LowerChar(c) ==
  CASE c = "A" -> "a" [] c = "B" -> "b" [] c = "C" -> "c" [] c = "D" -> "d"
    [] c = "E" -> "e" [] c = "F" -> "f" [] c = "G" -> "g" [] c = "H" -> "h"
    [] c = "I" -> "i" [] c = "J" -> "j" [] c = "K" -> "k" [] c = "L" -> "l"
    [] c = "M" -> "m" [] c = "N" -> "n" [] c = "O" -> "o" [] c = "P" -> "p"
    [] c = "Q" -> "q" [] c = "R" -> "r" [] c = "S" -> "s" [] c = "T" -> "t"
    [] c = "U" -> "u" [] c = "V" -> "v" [] c = "W" -> "w" [] c = "X" -> "x"
    [] c = "Y" -> "y" [] c = "Z" -> "z" [] OTHER -> c

toLowerCaseOf[s \in Seq(STRING)] == Tuple([i \in 1..Len(s) |-> LowerChar(s[i])])

toLowerCase(s) == toLowerCaseOf[s]

\* the characters matched by \s in the names the model uses
IsSpace(c) == c \in {" ", "\t"}

\* the index of the last occurrence of character c in s, 0 when there is none
LastIndexOf(s, c) ==
  LET hits == {i \in 1..Len(s) : s[i] = c}
  IN IF hits = {} THEN 0 ELSE CHOOSE i \in hits : \A j \in hits : j <= i

\* the index of the first occurrence of character c in s, 0 when there is none
IndexOf(s, c) ==
  LET hits == {i \in 1..Len(s) : s[i] = c}
  IN IF hits = {} THEN 0 ELSE CHOOSE i \in hits : \A j \in hits : i <= j

\* the numbers 1 to n in their order
Indices(n) == Tuple([i \in 1..n |-> i])

\* the elements of a sequence at the indices idx, a sequence of numbers
AtIndices(s, idx) == Tuple([k \in 1..Len(idx) |-> s[idx[k]]])

\* the sum of a sequence of natural numbers
Sum(ns) == Cardinality(UNION {{<<i, u>> : u \in 1..ns[i]} : i \in DOMAIN ns})

\* the concatenation of the sequences seqs, where ends[i] is the length of the
\* first i of them together
Concat(seqs, ends) ==
  Tuple([p \in 1..ends[Len(seqs)] |->
           LET o == CHOOSE i \in 1..Len(seqs) : ends[i - 1] < p /\ p <= ends[i]
           IN seqs[o][p - ends[o - 1]]])

\* the concatenation of a tuple of sequences
FlattenTuple(seqs) ==
  Only({Concat(seqs, ends) :
          ends \in {Map([i \in 0..Len(seqs) |-> Sum([j \in 1..i |-> Len(seqs[j])])])}})

\* the concatenation of the sequences of a sequence
Flatten(seqs) == Only({FlattenTuple(t) : t \in {Tuple(seqs)}})

\* the maps fs merged, where doms[i] is the set of keys of fs[i]: where
\* several have a key, the last one wins
Merged(fs, doms) ==
  Map([p \in UNION {doms[i] : i \in 1..Len(fs)} |->
         fs[CHOOSE i \in 1..Len(fs) :
              /\ p \in doms[i]
              /\ \A j \in (i + 1)..Len(fs) : p \notin doms[j]][p]])

\* the maps of a tuple merged
MergeTuple(fs) ==
  Only({Merged(fs, doms) : doms \in {Tuple([i \in 1..Len(fs) |-> DOMAIN fs[i]])}})

\* the maps of a sequence merged
MergeAll(fs) == Only({MergeTuple(t) : t \in {Tuple(fs)}})

\* the pieces of s between the cuts, a sequence of indices
Pieces(s, cuts) ==
  Tuple([k \in 1..(Len(cuts) + 1) |->
           SubSeq(s, IF k = 1 THEN 1 ELSE cuts[k - 1] + 1,
                     IF k > Len(cuts) THEN Len(s) ELSE cuts[k] - 1)])

\* s.split(c): the pieces between the occurrences of character c
SplitAt(s, c) ==
  Only({Pieces(s, cuts) : cuts \in {SelectSeq(Indices(Len(s)), LAMBDA i : s[i] = c)}})

\* s.split("/")
SplitOf[s \in Seq(STRING)] == SplitAt(s, "/")

Split(s) == SplitOf[s]

\* segs.join("/")
JoinSegs(segs) ==
  Flatten([k \in 1..(2 * Len(segs) - 1) |->
             IF k % 2 = 1 THEN segs[(k + 1) \div 2] ELSE <<"/">>])

(***************************************************************************)
(* String literals of the program                                          *)
(***************************************************************************)
REPO_METADATA_FILENAME ==
  <<"r", "e", "p", "o", "-", "m", "e", "t", "a", "d", "a", "t", "a", ".", "j", "s", "o", "n">>

INDEX_JSON == <<"i", "n", "d", "e", "x", ".", "j", "s", "o", "n">>

ENTITY_JSON == <<"e", "n", "t", "i", "t", "y", ".", "j", "s", "o", "n">>

ENTITY_DEPS_JSON ==
  <<"e", "n", "t", "i", "t", "y", "+", "d", "e", "p", "s", ".", "j", "s", "o", "n">>

ENTITY_DEPS == <<"e", "n", "t", "i", "t", "y", "+", "d", "e", "p", "s">>

EXT_JSON == <<".", "j", "s", "o", "n">>

EXT_ZIP == <<".", "z", "i", "p">>

EXT_M4A == <<".", "m", "4", "a">>

SOUNDS == <<"s", "o", "u", "n", "d", "s">>

DOT == <<".">>

SLASH == <<"/">>

(***************************************************************************)
(* path.posix of Node, on relative and absolute paths                      *)
(***************************************************************************)
\* normalizeString(path, allowAboveRoot): resolves "." and ".." segments
RECURSIVE NormSegs(_, _, _)
NormSegs(segs, acc, allowAboveRoot) ==
  IF segs = <<>> THEN acc
  ELSE LET s == Head(segs)
           rest == Tail(segs)
       IN IF s = <<>> \/ s = DOT THEN NormSegs(rest, acc, allowAboveRoot)
          ELSE IF s = <<".", ".">>
          THEN IF acc # <<>> /\ Last(acc) # <<".", ".">>
               THEN NormSegs(rest, Front(acc), allowAboveRoot)
               ELSE IF allowAboveRoot
                    THEN NormSegs(rest, Append(acc, s), allowAboveRoot)
                    ELSE NormSegs(rest, acc, allowAboveRoot)
          ELSE NormSegs(rest, Append(acc, s), allowAboveRoot)

\* the segments of a path resolved; when none of them is ".." the result is
\* the segments other than "" and "."
Resolved(segs, allowAboveRoot) ==
  IF \E i \in 1..Len(segs) : segs[i] = <<".", ".">>
  THEN NormSegs(segs, <<>>, allowAboveRoot)
  ELSE SelectSeq(segs, LAMBDA seg : seg # <<>> /\ seg # DOT)

\* the normalized path, from its resolved segments joined
Normalized(isAbsolute, trailing, body) ==
  IF body = <<>>
  THEN IF isAbsolute THEN SLASH ELSE IF trailing THEN <<".", "/">> ELSE DOT
  ELSE (IF isAbsolute THEN SLASH ELSE <<>>) \o body
       \o (IF trailing THEN SLASH ELSE <<>>)

\* path.posix.normalize
NormalizeOf[p \in Seq(STRING)] ==
  IF p = <<>> THEN DOT
  ELSE Only({Normalized(p[1] = "/", Last(p) = "/", JoinSegs(segs)) :
               segs \in {Only({Resolved(pieces, p[1] # "/") : pieces \in {Split(p)}})}})

Normalize(p) == NormalizeOf[p]

\* path.join of two arguments (empty arguments are skipped)
PathJoin(a, b) ==
  Only({Normalize(joined) :
          joined \in {IF a = <<>> THEN b ELSE IF b = <<>> THEN a ELSE a \o SLASH \o b}})

\* the path without its trailing slashes (the root "/" is kept)
RECURSIVE StripTrailingSlashes(_)
StripTrailingSlashes(p) ==
  IF Len(p) > 1 /\ Last(p) = "/" THEN StripTrailingSlashes(Front(p)) ELSE p

\* path.posix.dirname
DirnameOf[p \in Seq(STRING)] ==
  IF p = <<>> THEN DOT
  ELSE LET q == StripTrailingSlashes(p)
           k == LastIndexOf(q, "/")
       IN IF k = 0 THEN DOT
          ELSE IF k = 1 THEN SLASH
          ELSE StripTrailingSlashes(SubSeq(q, 1, k - 1))

Dirname(p) == DirnameOf[p]

\* path.posix.basename with one argument
BasenameOf[p \in Seq(STRING)] ==
  LET q == StripTrailingSlashes(p)
      k == LastIndexOf(q, "/")
  IN IF q = SLASH THEN <<>> ELSE SubSeq(q, k + 1, Len(q))

Basename(p) == BasenameOf[p]

\* path.posix.extname
ExtnameOf[p \in Seq(STRING)] ==
  LET b == Basename(p)
      k == LastIndexOf(b, ".")
  IN IF k <= 1 \/ b = <<".", ".">> THEN <<>> ELSE SubSeq(b, k, Len(b))

Extname(p) == ExtnameOf[p]

\* path.posix.basename(p, ext)
BasenameExt(p, ext) ==
  LET b == Basename(p)
  IN IF ext # <<>> /\ b # ext /\ EndsWith(b, ext)
     THEN SubSeq(b, 1, Len(b) - Len(ext))
     ELSE b

(***************************************************************************)
(* Name helpers of generate-index.js                                       *)
(***************************************************************************)
\* name.replace(/\s+/g, "-"): every run of white space becomes one dash.  The
\* characters kept are those not followed by more white space of their run.
sanitizeForFilesystemOf[name \in Seq(STRING)] ==
  LET kept == SelectSeq(Indices(Len(name)),
                        LAMBDA i : ~(/\ IsSpace(name[i])
                                     /\ i < Len(name)
                                     /\ IsSpace(name[i + 1])))
  IN Tuple([k \in 1..Len(kept) |->
              IF IsSpace(name[kept[k]]) THEN "-" ELSE name[kept[k]]])

sanitizeForFilesystem(name) == sanitizeForFilesystemOf[name]

\* filePath.replace(/\.json$/i, "")
stripJsonExtensionOf[filePath \in Seq(STRING)] ==
  IF EndsWith(toLowerCase(filePath), EXT_JSON)
  THEN SubSeq(filePath, 1, Len(filePath) - Len(EXT_JSON))
  ELSE filePath

stripJsonExtension(filePath) == stripJsonExtensionOf[filePath]

\* filePath.replace(/\.zip$/i, "")
stripZipExtensionOf[filePath \in Seq(STRING)] ==
  IF EndsWith(toLowerCase(filePath), EXT_ZIP)
  THEN SubSeq(filePath, 1, Len(filePath) - Len(EXT_ZIP))
  ELSE filePath

stripZipExtension(filePath) == stripZipExtensionOf[filePath]

\* "Persons/Featured/David.json" => "Persons"
getTopLevelFolderOf[webRelativePath \in Seq(STRING)] ==
  IF webRelativePath = <<>> THEN <<>>
  ELSE LET slashIndex == IndexOf(webRelativePath, "/")
       IN IF slashIndex = 0 THEN webRelativePath
          ELSE SubSeq(webRelativePath, 1, slashIndex - 1)

getTopLevelFolder(webRelativePath) == getTopLevelFolderOf[webRelativePath]

(***************************************************************************)
(* JSON values.  An object is a function from field names to values; an    *)
(* absent field is absent from the domain.  A JSON text (a file's content  *)
(* or the imageSourceJson string) is either well formed, and then it holds *)
(* the value it parses to, or it is not.                                   *)
(***************************************************************************)
Has(o, k) == k \in DOMAIN o

Without(o, k) == Map([x \in DOMAIN o \ {k} |-> o[x]])

With(o, k, v) == (k :> v) @@ o

EmptyObject == [x \in {} |-> {}]

\* JS truthiness of an optional string field
TruthyStr(o, k) == Has(o, k) /\ o[k] # <<>>

\* JSON.stringify of a plain value
JSONstringify(v) == [text |-> "json", v |-> v]

\* JSON.parse: the value of a well-formed text, a failure otherwise
JSONparse(t) == IF t.text = "json" THEN [ok |-> TRUE, v |-> t.v] ELSE [ok |-> FALSE]

\* json.spec || {}
SpecOf(json) == IF Has(json, "spec") THEN json.spec ELSE EmptyObject

(***************************************************************************)
(* Buffer.from(text, "base64")                                             *)
(***************************************************************************)
B64_ALPHABET ==
  <<"A", "B", "C", "D", "E", "F", "G", "H", "I", "J", "K", "L", "M", "N", "O", "P",
    "Q", "R", "S", "T", "U", "V", "W", "X", "Y", "Z", "a", "b", "c", "d", "e", "f",
    "g", "h", "i", "j", "k", "l", "m", "n", "o", "p", "q", "r", "s", "t", "u", "v",
    "w", "x", "y", "z", "0", "1", "2", "3", "4", "5", "6", "7", "8", "9", "+", "/">>

\* the 6-bit value of a character of the alphabet
SextetOf(c) == (CHOOSE i \in 1..Len(B64_ALPHABET) : B64_ALPHABET[i] = c) - 1

\* the 6-bit values of the characters of the alphabet, the others are skipped
Sextets(text) ==
  LET coded == SelectSeq(text, LAMBDA c : \E j \in 1..Len(B64_ALPHABET) :
                                            B64_ALPHABET[j] = c)
  IN Tuple([i \in 1..Len(coded) |-> SextetOf(coded[i])])

RECURSIVE BytesOfSextets(_)
BytesOfSextets(q) ==
  IF Len(q) < 2 THEN <<>>
  ELSE LET b1 == q[1] * 4 + (q[2] \div 16)
       IN IF Len(q) = 2 THEN <<b1>>
          ELSE LET b2 == (q[2] % 16) * 16 + (q[3] \div 4)
               IN IF Len(q) = 3 THEN <<b1, b2>>
                  ELSE <<b1, b2, (q[3] % 4) * 64 + q[4]>>
                       \o BytesOfSextets(SubSeq(q, 5, Len(q)))

Base64DecodeOf[text \in Seq(STRING)] == BytesOfSextets(Sextets(text))

Base64Decode(text) == Base64DecodeOf[text]

(***************************************************************************)
(* generateUUID and the clock                                              *)
(***************************************************************************)
DIGITS == <<"0", "1", "2", "3", "4", "5", "6", "7", "8", "9">>

RECURSIVE NatToStr(_)
NatToStr(n) ==
  IF n < 10 THEN <<DIGITS[n + 1]>>
  ELSE NatToStr(n \div 10) \o <<DIGITS[(n % 10) + 1]>>

\* the n-th identifier drawn from crypto.randomBytes: fresh at every call
generateUUID(n) == <<"u", "u", "i", "d", "-">> \o NatToStr(n)

\* Date.parse on the date strings the model uses
DATE_1970_01_02 == <<"1", "9", "7", "0", "-", "0", "1", "-", "0", "2">>

DateParse(s) ==
  IF s = DATE_1970_01_02 THEN [ok |-> TRUE, ms |-> 86400000] ELSE [ok |-> FALSE]

\* dateVal is absent, or a number [t |-> "number", v], or a string [t |-> "string", v]
toUnixEpochSeconds(m, k, now) ==
  IF ~Has(m, k) THEN now
  ELSE IF m[k].t = "number" THEN (IF m[k].v = 0 THEN now ELSE m[k].v)
  ELSE IF m[k].v = <<>> THEN now
  ELSE LET parsed == DateParse(m[k].v)
       IN IF ~parsed.ok THEN now ELSE parsed.ms \div 1000

(***************************************************************************)
(* Entity kinds                                                            *)
(***************************************************************************)
KIND_PERSONS == <<"p", "e", "r", "s", "o", "n", "s">>

KIND_FEEDS == <<"f", "e", "e", "d", "s">>

KIND_SOUNDSETS == <<"s", "o", "u", "n", "d", "s", "e", "t", "s">>

KIND_GENERATIVEAIS == <<"g", "e", "n", "e", "r", "a", "t", "i", "v", "e", "a", "i", "s">>

KIND_PAGECONTENTS == <<"p", "a", "g", "e", "c", "o", "n", "t", "e", "n", "t", "s">>

KIND_APICONTENTS == <<"a", "p", "i", "c", "o", "n", "t", "e", "n", "t", "s">>

KIND_PROGRAMS == <<"p", "r", "o", "g", "r", "a", "m", "s">>

KIND_BROADCASTS == <<"b", "r", "o", "a", "d", "c", "a", "s", "t", "s">>

KIND_CATALOGS == <<"c", "a", "t", "a", "l", "o", "g", "s">>

PNG == <<".", "p", "n", "g">>

getEntityImageFilenameOf[entityType \in Seq(STRING)] ==
  LET t == toLowerCase(entityType)
  IN CASE t = KIND_PERSONS -> <<"p", "e", "r", "s", "o", "n">> \o PNG
       [] t = KIND_FEEDS -> <<"f", "e", "e", "d">> \o PNG
       [] t = KIND_SOUNDSETS -> <<"s", "o", "u", "n", "d", "s", "e", "t">> \o PNG
       [] t = KIND_GENERATIVEAIS ->
            <<"g", "e", "n", "e", "r", "a", "t", "i", "v", "e", "a", "i">> \o PNG
       [] t = KIND_PAGECONTENTS ->
            <<"p", "a", "g", "e", "c", "o", "n", "t", "e", "n", "t">> \o PNG
       [] t = KIND_APICONTENTS ->
            <<"a", "p", "i", "c", "o", "n", "t", "e", "n", "t">> \o PNG
       [] t = KIND_PROGRAMS -> <<"p", "r", "o", "g", "r", "a", "m">> \o PNG
       [] t = KIND_BROADCASTS -> <<"b", "r", "o", "a", "d", "c", "a", "s", "t">> \o PNG
       [] t = KIND_CATALOGS -> <<"c", "a", "t", "a", "l", "o", "g">> \o PNG
       [] OTHER -> <<"e", "n", "t", "i", "t", "y">> \o PNG

getEntityImageFilename(entityType) == getEntityImageFilenameOf[entityType]

(***************************************************************************)
(* The digest builder                                                      *)
(***************************************************************************)
NO_IMAGE == [kind |-> "bundle", name |-> "no_image"]

decodeImageSource(specObj) ==
  IF Has(specObj, "imageSource") THEN specObj.imageSource
  ELSE IF /\ Has(specObj, "extraData")
          /\ Has(specObj.extraData, "data")
          /\ Has(specObj.extraData.data, "imageSourceJson")
       THEN LET parsed == JSONparse(specObj.extraData.data.imageSourceJson)
            IN IF parsed.ok THEN parsed.v ELSE NO_IMAGE
       ELSE NO_IMAGE

\* m.k || dflt, for a field that holds a string
OrStr(m, k, dflt) == IF Has(m, k) /\ m[k] # "" THEN m[k] ELSE dflt

\* a variant of BaseDigest that gives an id only to a record that has one
BaseDigest_OwnIdOnly(entityType, m, ctr, now) ==
  (IF TruthyStr(m, "id") THEN [id |-> m.id] ELSE EmptyObject)
    @@ [entityType |-> entityType,
        name |-> IF TruthyStr(m, "name") THEN m.name ELSE <<>>,
        lastModified |-> toUnixEpochSeconds(m, "lastModified", now),
        imageSource |-> decodeImageSource(m)]

\* the fields every digest has: id (a fresh one when absent), name, image, date
\* a variant of BaseDigest whose fresh id follows the clock
BaseDigest_ClockId(entityType, m, ctr, now) ==
  [entityType |-> entityType,
   id |-> IF TruthyStr(m, "id") THEN m.id ELSE generateUUID(ctr + now),
   name |-> IF TruthyStr(m, "name") THEN m.name ELSE <<>>,
   lastModified |-> toUnixEpochSeconds(m, "lastModified", now),
   imageSource |-> decodeImageSource(m)]

BaseDigest(entityType, m, ctr, now) ==
  [entityType |-> entityType,
   id |-> IF TruthyStr(m, "id") THEN m.id ELSE generateUUID(ctr),
   name |-> IF TruthyStr(m, "name") THEN m.name ELSE <<>>,
   lastModified |-> toUnixEpochSeconds(m, "lastModified", now),
   imageSource |-> decodeImageSource(m)]

parsePersonDigest(m, ctr, now) ==
  [personality |-> OrStr(m, "personality", "dj"),
   voice |-> OrStr(m, "voice", ""),
   type |-> OrStr(m, "type", "userdefined")] @@ BaseDigest("Person", m, ctr, now)

parseFeedDigest(m, ctr, now) ==
  [source |-> OrStr(m, "source", ""),
   url |-> OrStr(m, "url", "null")] @@ BaseDigest("Feed", m, ctr, now)

parseSoundSetDigest(m, ctr, now) ==
  [type |-> OrStr(m, "type", "userdefined")] @@ BaseDigest("SoundSet", m, ctr, now)

parseGenerativeAiDigest(m, ctr, now) ==
  [endpoint |-> OrStr(m, "endpoint", ""),
   contentType |-> OrStr(m, "contentType", "TEXT"),
   description |-> OrStr(m, "description", "null")]
    @@ BaseDigest("GenerativeAi", m, ctr, now)

parsePageContentDigest(m, ctr, now) ==
  [endpoint |-> OrStr(m, "endpoint", ""),
   contentType |-> OrStr(m, "contentType", "PAGE"),
   description |-> OrStr(m, "description", "null")]
    @@ BaseDigest("PageContent", m, ctr, now)

parseApiContentDigest(m, ctr, now) ==
  [endpoint |-> OrStr(m, "endpoint", ""),
   contentType |-> OrStr(m, "contentType", "TEXT"),
   description |-> OrStr(m, "description", "null")]
    @@ BaseDigest("ApiContent", m, ctr, now)

parseProgramDigest(m, ctr, now) ==
  [lang |-> IF Has(m, "lang") THEN m.lang ELSE [code |-> "en", language |-> "english"],
   description |-> OrStr(m, "description", "null"),
   programMode |-> OrStr(m, "programMode", "Basic")]
    @@ BaseDigest("Program", m, ctr, now)

\* headline.join(", ")
RECURSIVE JoinHeadline(_)
JoinHeadline(h) ==
  IF Len(h) = 1 THEN h[1] ELSE h[1] \o <<",", " ">> \o JoinHeadline(Tail(h))

UNTITLED_BROADCAST ==
  <<"U", "n", "t", "i", "t", "l", "e", "d", " ", "B", "r", "o", "a", "d", "c", "a", "s", "t">>

parseBroadcastDigest(m, ctr, now) ==
  [name |-> IF Has(m, "headline") /\ Len(m.headline) > 0
            THEN JoinHeadline(m.headline) ELSE UNTITLED_BROADCAST,
   headline |-> IF Has(m, "headline") THEN m.headline ELSE <<>>,
   programId |-> OrStr(m, "programId", "null"),
   soundSetId |-> IF TruthyStr(m, "soundSetId") THEN m.soundSetId ELSE <<>>,
   estimatedTime |-> OrStr(m, "estimatedTime", "null"),
   generatedTime |-> toUnixEpochSeconds(m, "generatedTime", now),
   status |-> OrStr(m, "status", "composing")]
    @@ BaseDigest("Broadcast", m, ctr, now)

parseCatalogDigest(m, ctr, now) ==
  [endpoint |-> OrStr(m, "endpoint", ""),
   description |-> OrStr(m, "description", "null")]
    @@ BaseDigest("Catalog", m, ctr, now)

\* ctr numbers the generateUUID call the digest makes when the record has no id
buildDigest(rootJson, topFolderName, ctr, now) ==
  LET m == SpecOf(rootJson)
      t == toLowerCase(topFolderName)
  IN CASE t = KIND_PERSONS -> parsePersonDigest(m, ctr, now)
       [] t = KIND_FEEDS -> parseFeedDigest(m, ctr, now)
       [] t = KIND_SOUNDSETS -> parseSoundSetDigest(m, ctr, now)
       [] t = KIND_GENERATIVEAIS -> parseGenerativeAiDigest(m, ctr, now)
       [] t = KIND_PAGECONTENTS -> parsePageContentDigest(m, ctr, now)
       [] t = KIND_APICONTENTS -> parseApiContentDigest(m, ctr, now)
       [] t = KIND_PROGRAMS -> parseProgramDigest(m, ctr, now)
       [] t = KIND_BROADCASTS -> parseBroadcastDigest(m, ctr, now)
       [] t = KIND_CATALOGS -> parseCatalogDigest(m, ctr, now)
       [] OTHER -> BaseDigest("Unknown", m, ctr, now)

\* the number of generateUUID calls one digest makes
DigestUuids(rootJson) == IF TruthyStr(SpecOf(rootJson), "id") THEN 0 ELSE 1

(***************************************************************************)
(* The media rewriter                                                      *)
(***************************************************************************)
\* a variant of RemoteRef that tags the reference local
RemoteRef_Local(url) == [kind |-> "local", url |-> url]

RemoteRef(url) == [kind |-> "remote", url |-> url]

\* a variant of UrlOf that puts no slash after the base URL
UrlOf_NoSlash(base, rel) == base \o rel

\* `${BASE_URL}/${rel}`
UrlOf(base, rel) == base \o SLASH \o rel

setApiContentImageSource(spec, absoluteUrl) ==
  LET extra0 == IF Has(spec, "extraData") THEN spec.extraData
                ELSE [data |-> EmptyObject]
      data0 == IF Has(extra0, "data") THEN extra0.data ELSE EmptyObject
      data1 == With(data0, "imageSourceJson", JSONstringify(RemoteRef(absoluteUrl)))
  IN With(spec, "extraData", With(extra0, "data", data1))

\* the folder of the entity's assets, relative to the output root
ParentRelOf[rawRelativePath \in Seq(STRING)] ==
  LET isAggregated ==
        StartsWith(toLowerCase(Basename(rawRelativePath)), ENTITY_DEPS)
  IN IF EndsWith(toLowerCase(rawRelativePath), EXT_JSON) /\ ~isAggregated
     THEN PathJoin(Dirname(rawRelativePath),
                   stripJsonExtension(Basename(rawRelativePath)))
     ELSE Dirname(rawRelativePath)

ParentRel(rawRelativePath) == ParentRelOf[rawRelativePath]

isApiContentFamily(entityType) ==
  toLowerCase(entityType) \in
    {KIND_APICONTENTS, KIND_GENERATIVEAIS, KIND_PAGECONTENTS, KIND_CATALOGS}

\* where the remote image reference is stored: nested for the ApiContent family
PlaceImage(spec, family, absoluteImageUrl) ==
  IF family
  THEN Without(setApiContentImageSource(spec, absoluteImageUrl), "imageSource")
  ELSE With(spec, "imageSource", RemoteRef(absoluteImageUrl))

\* step 1, for a spec with an embedded image: the image is written into the
\* entity's folder and the spec refers to it by URL
ImageExtracted(spec, family, fullImagePathOnDisk, absoluteImageUrl) ==
  [spec |-> PlaceImage(Without(spec, "embeddedImageBase64"), family, absoluteImageUrl),
   files |-> (fullImagePathOnDisk
                :> [t |-> "bytes", bytes |-> Base64Decode(spec.embeddedImageBase64)])]

\* steps 1 and 2 of extractEmbeddedMediaAndRewrite: [spec, files], where
\* parentRel is the folder of the entity's assets
RewriteImageIn(spec, entitySubfolder, imageFileName, family, parentRel, base) ==
  IF TruthyStr(spec, "embeddedImageBase64")
  THEN Only({ImageExtracted(spec, family, fullImagePathOnDisk,
                            UrlOf(base, finalRelImagePath)) :
               fullImagePathOnDisk \in {PathJoin(entitySubfolder, imageFileName)},
               finalRelImagePath \in {PathJoin(parentRel, imageFileName)}})
  ELSE IF /\ Has(spec, "imageSource")
          /\ spec.imageSource.kind \in {"local", "generated"}
  THEN Only({[spec |-> PlaceImage(spec, family, UrlOf(base, finalRelImagePath)),
              files |-> EmptyObject] :
               finalRelImagePath \in
                 {PathJoin(parentRel,
                           IF TruthyStr(spec.imageSource, "url")
                           THEN spec.imageSource.url ELSE imageFileName)}})
  ELSE [spec |-> spec, files |-> EmptyObject]

audioKeys == <<"openingBGM", "talkBGM", "newsBGM", "endingBGM", "jingleBGM">>

\* element.id, or a fresh identifier
ElementId(element, ctr) ==
  IF TruthyStr(element, "id") THEN element.id ELSE generateUUID(ctr)

\* sanitizeForFilesystem(baseOfFileName) + extension
FinalFileName(element, elementId) ==
  IF TruthyStr(element, "embeddedSoundFileName")
  THEN sanitizeForFilesystem(BasenameExt(element.embeddedSoundFileName,
                                         Extname(element.embeddedSoundFileName)))
         \o Extname(element.embeddedSoundFileName)
  ELSE sanitizeForFilesystem(elementId) \o EXT_M4A

\* a variant of ExtractSound that stores the identifier of the folder in the element
ExtractSound_StoreId(element, soundDir, soundFile, url, ctr) ==
  [element |->
     With(With(Without(Without(element, "embeddedSoundBase64"), "embeddedSoundFileName"),
               "soundSource", RemoteRef(url)),
          "id", Basename(soundDir)),
   files |-> (soundFile
                :> [t |-> "bytes", bytes |-> Base64Decode(element.embeddedSoundBase64)]),
   dirs |-> {soundDir},
   ctr |-> IF TruthyStr(element, "id") THEN ctr ELSE ctr + 1]

\* a variant of ExtractSound that leaves the name of the embedded file
ExtractSound_KeepName(element, soundDir, soundFile, url, ctr) ==
  [element |-> With(Without(element, "embeddedSoundBase64"), "soundSource", RemoteRef(url)),
   files |-> (soundFile
                :> [t |-> "bytes", bytes |-> Base64Decode(element.embeddedSoundBase64)]),
   dirs |-> {soundDir},
   ctr |-> IF TruthyStr(element, "id") THEN ctr ELSE ctr + 1]

\* an element with an embedded payload: the payload is written to soundFile
\* below sounds/<elementId> and the element refers to it by URL
ExtractSound(element, soundDir, soundFile, url, ctr) ==
  [element |->
     With(Without(Without(element, "embeddedSoundBase64"), "embeddedSoundFileName"),
          "soundSource", RemoteRef(url)),
   files |-> (soundFile
                :> [t |-> "bytes", bytes |-> Base64Decode(element.embeddedSoundBase64)]),
   dirs |-> {soundDir},
   ctr |-> IF TruthyStr(element, "id") THEN ctr ELSE ctr + 1]

\* the element's folder sounds/<elementId> on disk and relative to the output
SoundPlaced(element, soundsFolder, soundsRel, base, ctr, elementId, finalFileName) ==
  Only({ExtractSound(element, soundDir, PathJoin(soundDir, finalFileName),
                     UrlOf(base, relFile), ctr) :
          soundDir \in {PathJoin(soundsFolder, elementId)},
          relFile \in {PathJoin(PathJoin(soundsRel, elementId), finalFileName)}})

\* the body of the loop over one BGM array element: [element, files, dirs, ctr],
\* where soundsRel is the sounds folder relative to the output
RewriteSoundElement(element, soundsFolder, soundsRel, base, ctr) ==
  IF ~TruthyStr(element, "embeddedSoundBase64")
  THEN [element |-> element, files |-> EmptyObject, dirs |-> {}, ctr |-> ctr]
  ELSE Only({SoundPlaced(element, soundsFolder, soundsRel, base, ctr, named[1],
                         named[2]) :
               named \in {Only({<<elementId, FinalFileName(element, elementId)>> :
                                  elementId \in {ElementId(element, ctr)}})}})

\* whether the loop draws an identifier for the element
DrawsId(element) ==
  TruthyStr(element, "embeddedSoundBase64") /\ ~TruthyStr(element, "id")

\* the number of identifiers drawn for the elements before the i-th
DrawnBefore(arr, i) == Cardinality({j \in 1..(i - 1) : DrawsId(arr[j])})

\* the array, the files and the folders after the loop, from what its body
\* gave for each element
ArrayRewritten(ones, ctr) ==
  [arr |-> Tuple([i \in 1..Len(ones) |-> ones[i].element]),
   files |-> MergeAll([i \in 1..Len(ones) |-> ones[i].files]),
   dirs |-> UNION {ones[i].dirs : i \in 1..Len(ones)},
   ctr |-> ctr]

\* the loop over the elements of one BGM array: [arr, files, dirs, ctr]
RewriteSoundArray(arr, soundsFolder, soundsRel, base, ctr) ==
  Only({ArrayRewritten(ones, ctr + DrawnBefore(arr, Len(arr) + 1)) :
          ones \in {Tuple([i \in 1..Len(arr) |->
                             RewriteSoundElement(arr[i], soundsFolder, soundsRel, base,
                                                 ctr + DrawnBefore(arr, i))])}})

\* the number of identifiers drawn for the arrays of the audio keys before the k-th
DrawnBeforeKey(spec, k) ==
  Sum([q \in 1..(k - 1) |->
         IF Has(spec, audioKeys[q])
         THEN DrawnBefore(spec[audioKeys[q]], Len(spec[audioKeys[q]]) + 1)
         ELSE 0])

\* the spec, the files and the folders after the loop over the audio keys,
\* from what the inner loop gave for each key that holds an array
SoundsRewritten(spec, arrays, ctr) ==
  [spec |-> Map([f \in DOMAIN spec |->
                   IF \E k \in 1..Len(audioKeys) : audioKeys[k] = f
                   THEN arrays[CHOOSE k \in 1..Len(audioKeys) : audioKeys[k] = f].arr
                   ELSE spec[f]]),
   files |-> MergeAll([k \in 1..Len(arrays) |-> arrays[k].files]),
   dirs |-> UNION {arrays[k].dirs : k \in 1..Len(arrays)},
   ctr |-> ctr]

\* step 3 of extractEmbeddedMediaAndRewrite: the loop over the audio keys
RewriteSounds(spec, soundsFolder, soundsRel, base, ctr) ==
  Only({SoundsRewritten(spec, arrays, ctr + DrawnBeforeKey(spec, Len(audioKeys) + 1)) :
          arrays \in
            {Tuple([k \in 1..Len(audioKeys) |->
                      IF Has(spec, audioKeys[k])
                      THEN RewriteSoundArray(spec[audioKeys[k]], soundsFolder,
                                             soundsRel, base,
                                             ctr + DrawnBeforeKey(spec, k))
                      ELSE [arr |-> <<>>, files |-> EmptyObject, dirs |-> {},
                            ctr |-> ctr]])}})

\* the result of steps 1 to 3 for a SoundSet
AudioRewritten(img, soundsFolder, snd) ==
  [spec |-> snd.spec, files |-> snd.files @@ img.files,
   dirs |-> {soundsFolder} \cup snd.dirs, ctr |-> snd.ctr]

\* step 3 after steps 1 and 2 gave img = [spec, files]: only a SoundSet has
\* its BGM arrays handled
RewriteAudio(img, entitySubfolder, isSoundSet, parentRel, base, ctr) ==
  IF isSoundSet
  THEN Only({AudioRewritten(img, soundsFolder, snd) :
               soundsFolder \in {PathJoin(entitySubfolder, SOUNDS)},
               snd \in {RewriteSounds(img.spec, PathJoin(entitySubfolder, SOUNDS),
                                      PathJoin(parentRel, SOUNDS), base, ctr)}})
  ELSE [spec |-> img.spec, files |-> img.files, dirs |-> {}, ctr |-> ctr]

\* a variant of SpecWritten that keeps no field of the record but spec
SpecWritten_SpecOnly(json, r) ==
  [json |-> [spec |-> r.spec], files |-> r.files, dirs |-> r.dirs, ctr |-> r.ctr]

\* json.spec = spec
SpecWritten(json, r) ==
  [json |-> With(json, "spec", r.spec), files |-> r.files, dirs |-> r.dirs,
   ctr |-> r.ctr]

\* the steps of the rewriter, where top is the top-level folder of the record
\* and parentRel the folder of its assets with white space replaced
RewriteIn(json, entitySubfolder, imageFileName, top, parentRel, base, ctr) ==
  Only({SpecWritten(json, r) :
          r \in {Only({RewriteAudio(img, entitySubfolder, top = KIND_SOUNDSETS,
                                    parentRel, base, ctr) :
                         img \in {RewriteImageIn(SpecOf(json), entitySubfolder,
                                                 imageFileName, isApiContentFamily(top),
                                                 parentRel, base)}})}})

\* [json, files, dirs, ctr]: the rewritten record, the files and folders
\* written, and the number of the next generateUUID call
extractEmbeddedMediaAndRewrite(json, entitySubfolder, imageFileName, rawRelativePath, base, ctr) ==
  Only({RewriteIn(json, entitySubfolder, imageFileName, top, parentRel, base, ctr) :
          top \in {toLowerCase(getTopLevelFolder(rawRelativePath))},
          parentRel \in {sanitizeForFilesystem(ParentRel(rawRelativePath))}})

(***************************************************************************)
(* The file system.  The source is a sequence of nodes in listing order:   *)
(*   [k |-> "dir", name, entries]   or   [k |-> "file", name, content]     *)
(* and a content is a JSON text [t |-> "json", json], other bytes          *)
(* [t |-> "raw", bytes] / [t |-> "bytes", bytes], or an archive            *)
(* [t |-> "zip", ok, entries], whose entries are its files, each named by  *)
(* its path in the archive.  The output is a map from paths (relative to   *)
(* TARGET_DIR, which is ".") to contents, and the set of its folders.      *)
(***************************************************************************)
TARGET_DIR == DOT

\* parseJsonFile: the parsed value, or a failure for a text that is no JSON
parseJsonFile(content) ==
  IF content.t = "json" THEN [ok |-> TRUE, v |-> content.json] ELSE [ok |-> FALSE]

JsonFile(v) == [t |-> "json", json |-> v]

\* the folder and all the folders above it, as mkdir -p creates them
DirAndAncestorsOf[p \in Seq(STRING)] ==
  {p} \cup {Dirname(SubSeq(p, 1, i)) : i \in {j \in 1..Len(p) : p[j] = "/"} \cup {Len(p)}}

DirAndAncestors(p) == DirAndAncestorsOf[p]

\* the nodes of a tree that have the given name
Named(entries, name) == {i \in 1..Len(entries) : entries[i].name = name}

\* fs.existsSync(path.join(dir, name)) for a folder given by its entries
ExistsIn(entries, name) == Named(entries, name) # {}

\* readRepoMetadata(dirPath) || {}
readRepoMetadata(entries) ==
  LET hits == {i \in Named(entries, REPO_METADATA_FILENAME) : entries[i].k = "file"}
  IN IF hits = {} THEN EmptyObject
     ELSE LET parsed == parseJsonFile(entries[CHOOSE i \in hits : TRUE].content)
          IN IF parsed.ok THEN parsed.v ELSE EmptyObject

\* a variant of EntityIndexPath that gives the name of the entity's folder alone
EntityIndexPath_FolderOnly(rawRelativePath, subfolderName) == subfolderName

\* the path an index entry of an entity gets
EntityIndexPath(rawRelativePath, subfolderName) ==
  LET parentDir == Dirname(rawRelativePath)
  IN IF parentDir = DOT THEN subfolderName ELSE PathJoin(parentDir, subfolderName)

\* digest.name || fallback
NamedDigest(digest, fallback) ==
  IF digest.name = <<>> THEN [digest EXCEPT !.name = fallback] ELSE digest

(***************************************************************************)
(* processEntityJson and processEntityFolder: the files and folders the    *)
(* handler writes, the index entry it returns (items is empty when it      *)
(* returns null) and the number of the next generateUUID call.             *)
(***************************************************************************)
\* the index entry of an entity
EntityItem(digest, path) ==
  [name |-> digest.name, path |-> path, isDirectory |-> FALSE, digest |-> digest]

\* what follows the rewriter in both handlers: entity.json is written into the
\* entity's folder, and the digest is built from the rewritten record
EntityWritten(rw, entitySubfolder, rawRelativePath, subfolderName, fallbackName, now) ==
  [files |-> (PathJoin(entitySubfolder, ENTITY_JSON) :> JsonFile(rw.json)) @@ rw.files,
   dirs |-> DirAndAncestors(entitySubfolder) \cup rw.dirs,
   items |-> <<EntityItem(NamedDigest(buildDigest(rw.json,
                                                  getTopLevelFolder(rawRelativePath),
                                                  rw.ctr, now),
                                      fallbackName),
                          EntityIndexPath(rawRelativePath, subfolderName))>>,
   ctr |-> rw.ctr + DigestUuids(rw.json)]

\* the handler's steps on a record that parsed; displayName is the name the
\* first digest gave, or the fallback
ProcessEntity(json, parentTargetDir, rawRelativePath, subfolderName, displayName, base, ctr, now) ==
  EntityWritten(
    extractEmbeddedMediaAndRewrite(json, PathJoin(parentTargetDir, subfolderName),
      getEntityImageFilename(getTopLevelFolder(rawRelativePath)), rawRelativePath,
      base, ctr + DigestUuids(json)),
    PathJoin(parentTargetDir, subfolderName), rawRelativePath, subfolderName,
    displayName, now)

\* digest.name || fallback, of the digest built before the rewriting
DisplayName(json, rawRelativePath, fallback, ctr, now) ==
  NamedDigest(buildDigest(json, getTopLevelFolder(rawRelativePath), ctr, now),
              fallback).name

processEntityJson(content, name, parentTargetDir, rawRelativePath, base, ctr, now) ==
  IF ~parseJsonFile(content).ok
  THEN [files |-> (PathJoin(parentTargetDir, name) :> content),
        dirs |-> DirAndAncestors(parentTargetDir),
        items |-> <<>>, ctr |-> ctr]
  ELSE ProcessEntity(parseJsonFile(content).v, parentTargetDir, rawRelativePath,
                     sanitizeForFilesystem(stripJsonExtension(name)),
                     stripJsonExtension(name), base, ctr, now)

\* fs.readFileSync of entity.json in a folder given by its entries
EntityJsonOf(entries) ==
  LET hits == {i \in Named(entries, ENTITY_JSON) : entries[i].k = "file"}
  IN IF hits = {} THEN [ok |-> FALSE]
     ELSE parseJsonFile(entries[CHOOSE i \in hits : TRUE].content)

processEntityFolder(entries, parentTargetDir, rawRelativePath, folderName, base, ctr, now) ==
  IF ~EntityJsonOf(entries).ok
  THEN [files |-> EmptyObject, dirs |-> {}, items |-> <<>>, ctr |-> ctr]
  ELSE ProcessEntity(EntityJsonOf(entries).v, parentTargetDir, rawRelativePath,
                     sanitizeForFilesystem(folderName),
                     DisplayName(EntityJsonOf(entries).v, rawRelativePath, folderName,
                                 ctr, now),
                     base, ctr, now)

(***************************************************************************)
(* The Program package.  An archive is the list of its files, each named   *)
(* by its path in the archive, in the order in which the listings of the   *)
(* unpacked folders give them; a folder exists where a file lies below it. *)
(***************************************************************************)
\* whether a path lies below a folder
Below(name, dir) == dir = DOT \/ StartsWith(name, dir \o SLASH)

\* the path below a folder, relative to it
RelTo(name, dir) == IF dir = DOT THEN name ELSE SubSeq(name, Len(dir) + 2, Len(name))

Renamed(below, dir) ==
  Tuple([i \in 1..Len(below) |->
           [below[i] EXCEPT !.name = RelTo(below[i].name, dir)]])

\* the files below a folder, named relative to it
FilesIn(files, dir) ==
  Only({Renamed(below, dir) : below \in {SelectSeq(files, LAMBDA f : Below(f.name, dir))}})

\* fs.existsSync of the path of a file
HasFile(files, path) == \E i \in 1..Len(files) : files[i].name = path

\* parseJsonFile(path.join(root, rel)) on the files below root
ParseAt(files, rel) ==
  IF HasFile(files, rel)
  THEN parseJsonFile(files[CHOOSE i \in 1..Len(files) : files[i].name = rel].content)
  ELSE [ok |-> FALSE]

\* the ids of a list, each kept at its first occurrence (the order of a JS Set)
SetOrder(ids) ==
  AtIndices(ids, SelectSeq(Indices(Len(ids)),
                           LAMBDA i : \A j \in 1..(i - 1) : ids[j] # ids[i]))

FirstSegments(deep) ==
  SetOrder(Tuple([i \in 1..Len(deep) |->
                    SubSeq(deep[i].name, 1, IndexOf(deep[i].name, "/") - 1)]))

\* the entries of readdirSync(dir) that are folders, in listing order
Subfolders(files, dir) ==
  Only({FirstSegments(deep) :
         deep \in {SelectSeq(FilesIn(files, dir), LAMBDA f : IndexOf(f.name, "/") > 0)}})

Pushed(dir, subs) == Tuple([i \in 1..Len(subs) |-> PathJoin(dir, subs[i])])

\* the loop of walkForEntityJson over its stack of folders
RECURSIVE WalkStack(_, _)
WalkStack(files, stack) ==
  IF stack = <<>> THEN [found |-> FALSE]
  ELSE IF HasFile(files, PathJoin(Last(stack), ENTITY_JSON))
  THEN [found |-> TRUE, entityDir |-> Last(stack)]
  ELSE Only({WalkStack(files, rest) :
              rest \in {Front(stack) \o Pushed(Last(stack),
                                              Subfolders(files, Last(stack)))}})

\* the search from the scratch folder, whose path is "."
walkForEntityJson(files) == WalkStack(files, <<DOT>>)

\* the id that field k of a segment (of its source when inSource) names
OwnId(s, k, inSource) ==
  LET holder == IF inSource
                THEN (IF Has(s, "source") THEN s.source ELSE EmptyObject)
                ELSE s
  IN IF TruthyStr(holder, k) THEN <<holder[k]>> ELSE <<>>

\* a variant of SegmentIds that does not walk subSegments
SegmentIds_TopOnly(segs, k, inSource) ==
  Flatten([i \in 1..Len(segs) |-> OwnId(segs[i], k, inSource)])

\* walkSegments: the ids that field k of the segments (field k of their source
\* when inSource) names, in the order of the depth-first walk
RECURSIVE SegmentIds(_, _, _)
SegmentIds(segs, k, inSource) ==
  Flatten([i \in 1..Len(segs) |->
             OwnId(segs[i], k, inSource)
               \o (IF Has(segs[i], "subSegments")
                   THEN SegmentIds(segs[i].subSegments, k, inSource) ELSE <<>>)])

\* programSpec.k ?? []
ListOf(programSpec, k) == IF Has(programSpec, k) THEN programSpec[k] ELSE <<>>

\* the ids a walk over programSpec.programSegments collects into one Set
segmentSet(programSpec, k, inSource) ==
  SetOrder(SegmentIds(ListOf(programSpec, "programSegments"), k, inSource))

\* a variant of unlessBuiltIn that does not look at the type of the record
unlessBuiltIn_Unfiltered(parsed) == IF parsed.ok THEN <<parsed.v>> ELSE <<>>

\* what pick returns for the outcome of parseJsonFile: nothing when the file is
\* missing or does not parse, or when the record is predefined or preInstalled
unlessBuiltIn(parsed) ==
  IF ~parsed.ok THEN <<>>
  ELSE IF /\ Has(SpecOf(parsed.v), "type")
          /\ SpecOf(parsed.v).type \in {"predefined", "preInstalled"}
  THEN <<>>
  ELSE <<parsed.v>>

\* pick(relPath): the record of <relPath>/entity.json unless it is built in
pick(pkgEntries, relPath) ==
  unlessBuiltIn(ParseAt(pkgEntries, PathJoin(relPath, ENTITY_JSON)))

\* ids.map((id) => pick(`${folder}/${id}`)).filter(Boolean)
pickAll(pkgEntries, folder, ids) ==
  Flatten([i \in 1..Len(ids) |-> pick(pkgEntries, folder \o SLASH \o ids[i])])

FOLDER_PERSON == <<"p", "e", "r", "s", "o", "n">>

FOLDER_SOUNDSET == <<"s", "o", "u", "n", "d", "s", "e", "t">>

FOLDER_SOUNDELEMENT == <<"s", "o", "u", "n", "d", "E", "l", "e", "m", "e", "n", "t">>

FOLDER_FEED == <<"f", "e", "e", "d">>

FOLDER_APICONTENT == <<"a", "p", "i", "C", "o", "n", "t", "e", "n", "t">>

FOLDER_PAGECONTENT == <<"p", "a", "g", "e", "C", "o", "n", "t", "e", "n", "t">>

FOLDER_GENERATIVEAI == <<"g", "e", "n", "e", "r", "a", "t", "i", "v", "e", "A", "i">>

\* the records of the folders of soundset/<id>/soundElement, in listing order
ParsedElements(pkgFiles, soundElementRoot, dirs) ==
  Flatten([i \in 1..Len(dirs) |->
             LET se == ParseAt(pkgFiles,
                               PathJoin(PathJoin(soundElementRoot, dirs[i]), ENTITY_JSON))
             IN IF se.ok THEN <<se.v>> ELSE <<>>])

\* a variant of gatherSoundElements that leaves out the built-in elements
gatherSoundElements_Filtered(pkgFiles, soundSetId) ==
  SelectSeq(ParsedElements(pkgFiles,
                           PathJoin(PathJoin(FOLDER_SOUNDSET, soundSetId), FOLDER_SOUNDELEMENT),
                           Subfolders(pkgFiles,
                                      PathJoin(PathJoin(FOLDER_SOUNDSET, soundSetId),
                                               FOLDER_SOUNDELEMENT))),
            LAMBDA se : ~(Has(SpecOf(se), "type")
                            /\ SpecOf(se).type \in {"predefined", "preInstalled"}))

gatherSoundElements(pkgFiles, soundSetId) ==
  Only({ParsedElements(pkgFiles, soundElementRoot, Subfolders(pkgFiles, soundElementRoot)) :
         soundElementRoot \in {PathJoin(PathJoin(FOLDER_SOUNDSET, soundSetId),
                                        FOLDER_SOUNDELEMENT)}})

modelIdFields ==
  <<"generatorModelId", "summarizerModelId", "translatorModelId", "coverImageModelId">>

\* [programSpec.generatorModelId, ...].filter(Boolean)
modelIds(programSpec) ==
  Flatten([k \in 1..Len(modelIdFields) |->
             IF TruthyStr(programSpec, modelIdFields[k])
             THEN <<programSpec[modelIdFields[k]]>> ELSE <<>>])

\* the candidate ids of the four kinds that segments can name
feedCandidates(programSpec) ==
  ListOf(programSpec, "feedIds") \o segmentSet(programSpec, "feedId", TRUE)

apiContentCandidates(programSpec) ==
  ListOf(programSpec, "apiContentIds") \o segmentSet(programSpec, "apiContentId", TRUE)

pageContentCandidates(programSpec) ==
  ListOf(programSpec, "pageContentIds")
    \o segmentSet(programSpec, "pageContentId", TRUE)

generativeAiCandidates(programSpec) ==
  modelIds(programSpec) \o segmentSet(programSpec, "generativeAiId", FALSE)

\* the value of { dependencies: deps }.dependencies
buildAggregatedBlob(programSpec, pkgEntries) ==
  LET hasSet == TruthyStr(programSpec, "soundSetId")
      sObj == IF hasSet
              THEN pick(pkgEntries, FOLDER_SOUNDSET \o SLASH \o programSpec.soundSetId)
              ELSE <<>>
  IN [persons |-> pickAll(pkgEntries, FOLDER_PERSON,
                          ListOf(programSpec, "personalityIds")),
      soundSets |-> sObj,
      soundElements |-> IF sObj # <<>>
                        THEN gatherSoundElements(pkgEntries, programSpec.soundSetId)
                        ELSE <<>>,
      feeds |-> pickAll(pkgEntries, FOLDER_FEED, feedCandidates(programSpec)),
      apiContents |-> pickAll(pkgEntries, FOLDER_APICONTENT,
                              apiContentCandidates(programSpec)),
      pageContents |-> pickAll(pkgEntries, FOLDER_PAGECONTENT,
                               pageContentCandidates(programSpec)),
      generativeAis |-> pickAll(pkgEntries, FOLDER_GENERATIVEAI,
                                generativeAiCandidates(programSpec))]

(***************************************************************************)
(* The rewrite pass over an unpacked package                               *)
(***************************************************************************)
\* Object.entries(blob.dependencies): the keys in insertion order
depKeys ==
  <<"persons", "soundSets", "soundElements", "feeds", "apiContents", "pageContents",
    "generativeAis">>

\* the characters of a dependency key, as getEntityImageFilename receives them
depKeyName(key) ==
  CASE key = "persons" -> <<"p", "e", "r", "s", "o", "n", "s">>
    [] key = "soundSets" -> <<"s", "o", "u", "n", "d", "S", "e", "t", "s">>
    [] key = "soundElements" ->
         <<"s", "o", "u", "n", "d", "E", "l", "e", "m", "e", "n", "t", "s">>
    [] key = "feeds" -> <<"f", "e", "e", "d", "s">>
    [] key = "apiContents" -> <<"a", "p", "i", "C", "o", "n", "t", "e", "n", "t", "s">>
    [] key = "pageContents" ->
         <<"p", "a", "g", "e", "C", "o", "n", "t", "e", "n", "t", "s">>
    [] key = "generativeAis" ->
         <<"g", "e", "n", "e", "r", "a", "t", "i", "v", "e", "A", "i", "s">>

\* the number of identifiers the rewriter draws for a record
DrawnByRewrite(json, rawRelativePath) ==
  IF toLowerCase(getTopLevelFolder(rawRelativePath)) = KIND_SOUNDSETS
  THEN DrawnBeforeKey(SpecOf(json), Len(audioKeys) + 1)
  ELSE 0

\* the number of identifiers drawn for the objects of a list before the i-th
DrawnBeforeDep(list, i, rawRelativePath) ==
  Sum([j \in 1..(i - 1) |-> DrawnByRewrite([spec |-> list[j]], rawRelativePath)])

\* the list, the files and the folders after the loop over a list, from what
\* the rewriter gave for each object, which it changes in place
DepListRewritten(ones, ctr) ==
  [list |-> Tuple([i \in 1..Len(ones) |-> ones[i].json.spec]),
   files |-> MergeAll([i \in 1..Len(ones) |-> ones[i].files]),
   dirs |-> UNION {ones[i].dirs : i \in 1..Len(ones)},
   ctr |-> ctr]

\* step 3-B for one list: the rewriter runs on { spec } for each object
RewriteDepList(list, folderAbs, imgFile, rawRelativePath, base, ctr) ==
  DepListRewritten(
    Tuple([i \in 1..Len(list) |->
             extractEmbeddedMediaAndRewrite([spec |-> list[i]], folderAbs, imgFile,
                                            rawRelativePath, base,
                                            ctr + DrawnBeforeDep(list, i, rawRelativePath))]),
    ctr + DrawnBeforeDep(list, Len(list) + 1, rawRelativePath))

\* the number of identifiers drawn for the lists of the keys before the k-th
DrawnBeforeDepKey(deps, k, rawRelativePath) ==
  Sum([q \in 1..(k - 1) |->
         DrawnBeforeDep(deps[depKeys[q]], Len(deps[depKeys[q]]) + 1, rawRelativePath)])

\* the dependencies, the files and the folders after the loop over the keys
DepsListsRewritten(deps, lists, ctr) ==
  [deps |-> Map([key \in DOMAIN deps |->
               lists[CHOOSE k \in 1..Len(depKeys) : depKeys[k] = key].list]),
   files |-> MergeAll([k \in 1..Len(lists) |-> lists[k].files]),
   dirs |-> UNION {lists[k].dirs : k \in 1..Len(lists)},
   ctr |-> ctr]

\* step 3-B: the lists of blob.dependencies
RewriteDeps(deps, folderAbs, rawRelativePath, base, ctr) ==
  DepsListsRewritten(deps,
    Tuple([k \in 1..Len(depKeys) |->
             RewriteDepList(deps[depKeys[k]], folderAbs,
                            getEntityImageFilename(depKeyName(depKeys[k])),
                            rawRelativePath, base,
                            ctr + DrawnBeforeDepKey(deps, k, rawRelativePath))]),
    ctr + DrawnBeforeDepKey(deps, Len(depKeys) + 1, rawRelativePath))

\* webRelPathFromPrograms.split("/")[0] || "Programs"
TopFolderOf(webRelPathFromPrograms) ==
  LET first == Split(webRelPathFromPrograms)[1]
  IN IF first = <<>> THEN <<"P", "r", "o", "g", "r", "a", "m", "s">> ELSE first

\* fs.writeFileSync(abs, JSON.stringify(json)) after the rewriter gave rw
FileRewritten(entry, rw) ==
  [entry |-> [entry EXCEPT !.content = JsonFile(rw.json)],
   files |-> rw.files, dirs |-> rw.dirs, ctr |-> rw.ctr]

\* step 3-B, after step 3-A gave rw, and the writing of the blob
BlobRewritten(entry, rw, dp) ==
  [entry |-> [entry EXCEPT !.content =
                JsonFile(With(rw.json, "dependencies", dp.deps))],
   files |-> dp.files @@ rw.files, dirs |-> rw.dirs \cup dp.dirs, ctr |-> dp.ctr]

DepsRewritten(entry, rw, folderAbsPath, raw, base) ==
  IF Has(rw.json, "dependencies")
  THEN BlobRewritten(entry, rw,
         RewriteDeps(rw.json.dependencies, folderAbsPath, raw, base, rw.ctr))
  ELSE FileRewritten(entry, rw)

\* the number of identifiers the body of the loop draws for one file
DrawnByFile(file, webRelPathFromPrograms) ==
  IF Basename(file.name) \in {ENTITY_JSON, ENTITY_DEPS_JSON}
     /\ parseJsonFile(file.content).ok
  THEN DrawnByRewrite(parseJsonFile(file.content).v,
                      PathJoin(webRelPathFromPrograms, file.name))
       + (IF Basename(file.name) = ENTITY_DEPS_JSON
             /\ Has(parseJsonFile(file.content).v, "dependencies")
          THEN DrawnBeforeDepKey(parseJsonFile(file.content).v.dependencies,
                                 Len(depKeys) + 1,
                                 PathJoin(webRelPathFromPrograms, file.name))
          ELSE 0)
  ELSE 0

\* the number of identifiers drawn for the files before the i-th
DrawnBeforeEntry(files, i, webRelPathFromPrograms) ==
  Sum([j \in 1..(i - 1) |-> DrawnByFile(files[j], webRelPathFromPrograms)])

\* the files of the folder, the media files and the folders after the walk,
\* from what the body of the loop gave for each file
EntriesRewritten(ones, ctr) ==
  [entries |-> Tuple([i \in 1..Len(ones) |-> ones[i].entry]),
   files |-> MergeAll([i \in 1..Len(ones) |-> ones[i].files]),
   dirs |-> UNION {ones[i].dirs : i \in 1..Len(ones)},
   ctr |-> ctr]

\* the body of the loop for a file of the folder folderAbsPath, which the walk
\* reached under webRelPathFromPrograms: [entry, files, dirs, ctr]
RewriteFile(entry, entryName, folderAbsPath, webRelPathFromPrograms, base, ctr) ==
  IF entryName = ENTITY_JSON /\ parseJsonFile(entry.content).ok
  THEN FileRewritten(entry,
         extractEmbeddedMediaAndRewrite(parseJsonFile(entry.content).v,
           folderAbsPath,
           getEntityImageFilename(TopFolderOf(webRelPathFromPrograms)),
           PathJoin(webRelPathFromPrograms, entryName), base, ctr))
  ELSE IF entryName = ENTITY_DEPS_JSON /\ parseJsonFile(entry.content).ok
  THEN DepsRewritten(entry,
         extractEmbeddedMediaAndRewrite(parseJsonFile(entry.content).v,
           folderAbsPath,
           getEntityImageFilename(TopFolderOf(webRelPathFromPrograms)),
           PathJoin(webRelPathFromPrograms, entryName), base, ctr),
         folderAbsPath, PathJoin(webRelPathFromPrograms, entryName), base)
  ELSE [entry |-> entry, files |-> EmptyObject, dirs |-> {}, ctr |-> ctr]

\* the nested calls that lead to a file: each joins the name of a sub-folder
\* to both of its paths
RewriteEntry(entry, folderAbsPath, webRelPathFromPrograms, base, ctr) ==
  Only({RewriteFile(entry, Basename(entry.name), abs, web, base, ctr) :
         abs \in {PathJoin(folderAbsPath, Dirname(entry.name))},
         web \in {PathJoin(webRelPathFromPrograms, Dirname(entry.name))}})

\* recursivelyRewriteEntityFolder on the files below a folder
recursivelyRewriteEntityFolder(entries, folderAbsPath, webRelPathFromPrograms, base, ctr) ==
  EntriesRewritten(
    Tuple([i \in 1..Len(entries) |->
             RewriteEntry(entries[i], folderAbsPath, webRelPathFromPrograms, base,
                          ctr + DrawnBeforeEntry(entries, i, webRelPathFromPrograms))]),
    ctr + DrawnBeforeEntry(entries, Len(entries) + 1, webRelPathFromPrograms))

\* the files of a folder placed at a path: a map from paths to contents
TreeFiles(entries, at) ==
  MergeAll([i \in 1..Len(entries) |->
              (PathJoin(at, entries[i].name) :> entries[i].content)])

\* the folders of a folder placed at a path, that path included
TreeDirs(entries, at) ==
  {at} \cup UNION {DirAndAncestors(Dirname(PathJoin(at, entries[i].name))) :
                     i \in 1..Len(entries)}

(***************************************************************************)
(* processProgramPackageZip.  taken is the set of paths that exist in the  *)
(* output.  The result tells whether the handler threw (thrown), what it   *)
(* wrote before, the index entry it returned, and whether the scratch      *)
(* folder it made still exists when it ends (scratchLeft).                 *)
(***************************************************************************)
NoWrites(ctr) == [files |-> EmptyObject, dirs |-> {}, items |-> <<>>, ctr |-> ctr]

\* digest.name || fallbackName
ShownName(digest, name) ==
  IF digest.name = <<>> THEN stripJsonExtension(name) ELSE digest.name

\* the entries of the moved folder after entity+deps.json is written into it,
\* replacing one the archive may hold
WithDepsFile(entries, aggregated) ==
  Append(SelectSeq(entries, LAMBDA n : n.name # ENTITY_DEPS_JSON),
         [k |-> "file", name |-> ENTITY_DEPS_JSON, content |-> JsonFile(aggregated)])

\* step 5, after step 4 gave rw: the folder as rewritten is in the output
PackageListed(rw, destFolder, finalFolderName, rawRelativePath, digest, name, left) ==
  [thrown |-> FALSE, scratchLeft |-> left,
   files |-> rw.files @@ TreeFiles(rw.entries, destFolder),
   dirs |-> TreeDirs(rw.entries, destFolder) \cup DirAndAncestors(destFolder)
              \cup rw.dirs,
   items |-> <<[name |-> ShownName(digest, name),
                path |-> IF stripZipExtension(Dirname(rawRelativePath)) = DOT
                         THEN finalFolderName
                         ELSE PathJoin(stripZipExtension(Dirname(rawRelativePath)),
                                       finalFolderName),
                isDirectory |-> FALSE, digest |-> digest]>>,
   ctr |-> rw.ctr]

\* steps 3 and 4: the entity folder is moved to destFolder, the bundle is built
\* and written, and the media references of the folder are rewritten
PackageMoved(entries, progJson, digest, name, destFolder, finalFolderName, parentTargetDir, rawRelativePath, base, ctr, taken, left) ==
  IF destFolder \in taken
  THEN \* renameSync onto an existing file or a folder that is not empty
       [thrown |-> TRUE, scratchLeft |-> TRUE, files |-> EmptyObject,
        dirs |-> DirAndAncestors(parentTargetDir), items |-> <<>>, ctr |-> ctr]
  ELSE IF ~Has(progJson, "spec")
  THEN \* buildAggregatedBlob(undefined, ...) reads a field of undefined
       [thrown |-> TRUE, scratchLeft |-> left,
        files |-> TreeFiles(entries, destFolder),
        dirs |-> TreeDirs(entries, destFolder) \cup DirAndAncestors(destFolder),
        items |-> <<>>, ctr |-> ctr]
  ELSE PackageListed(
         recursivelyRewriteEntityFolder(
           WithDepsFile(entries,
                        With(progJson, "dependencies",
                             buildAggregatedBlob(progJson.spec, entries))),
           destFolder,
           PathJoin(Dirname(stripZipExtension(rawRelativePath)), finalFolderName),
           base, ctr),
         destFolder, finalFolderName, rawRelativePath, digest, name, left)

\* step 2, on the record of the entity.json found
PackageRead(entries, progJson, digest, name, parentTargetDir, rawRelativePath, base, ctr, taken, left) ==
  PackageMoved(entries, progJson, digest, name,
               PathJoin(parentTargetDir, sanitizeForFilesystem(ShownName(digest, name))),
               sanitizeForFilesystem(ShownName(digest, name)),
               parentTargetDir, rawRelativePath, base, ctr, taken, left)

\* after step 1: the scratch folder is removed when no entity.json is found
\* in it or when the one found does not parse; after a move it is gone only
\* when it is itself the entity folder
PackageParsed(entries, programJson, entityDir, name, parentTargetDir, rawRelativePath, base, ctr, now, taken) ==
  IF ~programJson.ok
  THEN [thrown |-> FALSE, scratchLeft |-> FALSE] @@ NoWrites(ctr)
  ELSE PackageRead(entries, programJson.v,
                   parseProgramDigest(SpecOf(programJson.v), ctr, now),
                   name, parentTargetDir, rawRelativePath, base,
                   ctr + DigestUuids(programJson.v), taken, entityDir # DOT)

PackageFound(files, candidate, name, parentTargetDir, rawRelativePath, base, ctr, now, taken) ==
  IF ~candidate.found
  THEN [thrown |-> FALSE, scratchLeft |-> FALSE] @@ NoWrites(ctr)
  ELSE Only({PackageParsed(FilesIn(files, candidate.entityDir), programJson,
                           candidate.entityDir, name, parentTargetDir,
                           rawRelativePath, base, ctr, now, taken) :
              programJson \in {ParseAt(files, PathJoin(candidate.entityDir,
                                                       ENTITY_JSON))}})

processProgramPackageZip(content, name, parentTargetDir, rawRelativePath, base, ctr, now, taken) ==
  IF content.t # "zip" \/ ~content.ok
  THEN \* new AdmZip / extractAllTo throw on a file that is no archive
       [thrown |-> TRUE, scratchLeft |-> TRUE] @@ NoWrites(ctr)
  ELSE Only({PackageFound(content.entries, candidate, name, parentTargetDir,
                          rawRelativePath, base, ctr, now, taken) :
              candidate \in {walkForEntityJson(content.entries)}})

(***************************************************************************)
(* The source repositories explored: names, documents, archives            *)
(***************************************************************************)
N_PERSONS == <<"P", "e", "r", "s", "o", "n", "s">>

N_SOUNDSETS == <<"S", "o", "u", "n", "d", "S", "e", "t", "s">>

N_APICONTENTS == <<"A", "p", "i", "C", "o", "n", "t", "e", "n", "t", "s">>

N_PROGRAMS == <<"P", "r", "o", "g", "r", "a", "m", "s">>

N_ALICE_JSON == <<"A", "l", "i", "c", "e", ".", "j", "s", "o", "n">>

N_BROKEN_JSON == <<"B", "r", "o", "k", "e", "n", ".", "j", "s", "o", "n">>

N_BOB == <<"B", "o", "b">>

N_BAD == <<"B", "a", "d">>

N_FEATURED == <<"F", "e", "a", "t", "u", "r", "e", "d">>

N_NOTES_TXT == <<"n", "o", "t", "e", "s", ".", "t", "x", "t">>

N_SHOW_ZIP == <<"S", "h", "o", "w", ".", "z", "i", "p">>

N_OTHER_ZIP == <<"O", "t", "h", "e", "r", ".", "z", "i", "p">>

N_HIDDEN == <<".", "D", "S", "_", "S", "t", "o", "r", "e">>

N_PKG == <<"S", "h", "o", "w", ".", "p", "r", "o", "g", "r", "a", "m", "p", "k", "g">>

N_ALICE == <<"A", "l", "i", "c", "e">>

N_SHOW == <<"S", "h", "o", "w">>

N_PIC_PNG == <<"p", "i", "c", ".", "p", "n", "g">>

N_COVER == <<"i", "m", "a", "g", "e", "s", "/", "c", "o", "v", "e", "r", ".", "p", "n", "g">>

N_TUNE_MP3 == <<"m", "y", " ", "t", "u", "n", "e", ".", "m", "p", "3">>

N_TUNE == <<"t", "u", "n", "e">>

ID_F1 == <<"f", "1">>

ID_F2 == <<"f", "2">>

ID_A1 == <<"a", "1">>

ID_G1 == <<"g", "1">>

ID_P1 == <<"p", "1">>

ID_PG1 == <<"p", "g", "1">>

ID_S1 == <<"s", "1">>

ID_E1 == <<"e", "1">>

B64_ABC == <<"Q", "U", "J", "D">>

B64_A == <<"Q", "Q", "=", "=">>

URL_X == <<"h", "t", "t", "p", ":", "/", "/", "x">>

URL_X_SLASH == <<"h", "t", "t", "p", ":", "/", "/", "x", "/">>

URL_REMOTE ==
  <<"h", "t", "t", "p", ":", "/", "/", "c", "d", "n", "/", "p", "i", "c", ".", "p", "n", "g">>

File(name, content) == [k |-> "file", name |-> name, content |-> content]

Dir(name, entries) == [k |-> "dir", name |-> name, entries |-> entries]

\* a file whose bytes are no JSON text
RawBytes == [t |-> "raw", bytes |-> <<123, 33>>]

ImageBytes == [t |-> "bytes", bytes |-> <<137, 80>>]

LocalRef(url) == [kind |-> "local", url |-> url]

\* sound elements: embedded with a spaced file name, embedded with a name that
\* has no extension, embedded with an id and no name, and a local reference
SoundElements ==
  <<[embeddedSoundBase64 |-> B64_A, embeddedSoundFileName |-> N_TUNE_MP3],
    [embeddedSoundBase64 |-> B64_A, embeddedSoundFileName |-> N_TUNE],
    [embeddedSoundBase64 |-> B64_A, id |-> ID_E1],
    [id |-> ID_E1, soundSource |-> LocalRef(N_TUNE_MP3)]>>

\* the entity documents of the kinds other than Program
DOC_EMBEDDED == [spec |-> [name |-> N_ALICE, embeddedImageBase64 |-> B64_ABC]]

DOC_LOCAL == [spec |-> [name |-> N_ALICE, imageSource |-> LocalRef(N_PIC_PNG)]]

DOC_GENERATED == [spec |-> [imageSource |-> [kind |-> "generated"]]]

DOC_PLAIN == [spec |-> [name |-> N_ALICE, id |-> ID_P1, custom |-> "kept"]]

DOC_NESTED_LOCAL ==
  [spec |-> [name |-> N_ALICE,
             extraData |-> [data |-> [imageSourceJson |->
                                        JSONstringify(LocalRef(N_PIC_PNG))]]]]

DOC_REMOTE == [spec |-> [name |-> N_ALICE, imageSource |-> RemoteRef(URL_REMOTE)]]

DOC_SOUNDS == [spec |-> [name |-> N_ALICE, talkBGM |-> SoundElements]]

DOC_NOSPEC == [note |-> "kept"]

EntityDocs ==
  {DOC_EMBEDDED, DOC_LOCAL, DOC_GENERATED, DOC_PLAIN, DOC_NESTED_LOCAL, DOC_REMOTE,
   DOC_SOUNDS, DOC_NOSPEC}

\* the entries a folder of entities may start with
EntityEntries ==
  {File(N_ALICE_JSON, JsonFile(d)) : d \in EntityDocs}
    \cup {Dir(N_BOB, <<File(ENTITY_JSON, JsonFile(d)), File(N_PIC_PNG, ImageBytes)>>) :
            d \in EntityDocs}
    \cup {Dir(N_FEATURED, <<File(N_ALICE_JSON, JsonFile(d))>>) : d \in EntityDocs}
    \cup {File(N_BROKEN_JSON, RawBytes),
          File(N_NOTES_TXT, RawBytes),
          Dir(N_BAD, <<File(ENTITY_JSON, RawBytes)>>)}

(***************************************************************************)
(* Program packages                                                        *)
(***************************************************************************)
MaxSegDepth == 2

\* a segment nested d deep that names a feed, an API content, a page content
\* and a generative AI
RECURSIVE NestedSegment(_)
NestedSegment(d) ==
  IF d <= 1
  THEN [generativeAiId |-> ID_G1,
        source |-> [feedId |-> ID_F2, apiContentId |-> ID_A1,
                    pageContentId |-> ID_PG1]]
  ELSE [subSegments |-> <<NestedSegment(d - 1)>>]

\* the programs whose packages come in every flavor
FlavoredSpecs ==
  {[name |-> N_SHOW, feedIds |-> <<ID_F1>>],
   [name |-> N_SHOW, personalityIds |-> <<ID_P1, ID_P1>>, soundSetId |-> ID_S1]}
    \cup {[name |-> N_SHOW, generatorModelId |-> ID_G1, feedIds |-> <<ID_F1>>,
           programSegments |-> <<NestedSegment(d)>>] : d \in 1..MaxSegDepth}

ProgramSpecs ==
  FlavoredSpecs
    \cup {[name |-> N_SHOW, feedIds |-> <<ID_F1, ID_F1>>],
          [name |-> N_SHOW, feedIds |-> <<ID_F1>>,
           programSegments |-> <<[source |-> [feedId |-> ID_F1]],
                                 [source |-> [feedId |-> ID_F1]]>>],
          [imageSource |-> LocalRef(N_COVER), feedIds |-> <<ID_F1>>],
          [name |-> N_SHOW, imageSource |-> LocalRef(N_PIC_PNG)],
          [name |-> N_SHOW, embeddedImageBase64 |-> B64_ABC]}

\* how the entities a program names are present in its package
Flavors == {"userdefined", "predefined", "preInstalled", "unparsable", "missing"}

DepDoc(id, flavor) ==
  [spec |-> [id |-> id, type |-> flavor, imageSource |-> LocalRef(N_PIC_PNG)]]

\* the file <dir>/<id>/entity.json of a dependency
DepDir(dir, id, flavor) ==
  IF flavor = "missing" THEN <<>>
  ELSE <<File(dir \o SLASH \o id \o SLASH \o ENTITY_JSON,
              IF flavor = "unparsable" THEN RawBytes
              ELSE JsonFile(DepDoc(id, flavor)))>>

\* the dependency files of a package: f1, p1, s1, g1 come in the flavor, the
\* others are user content
DepTree(flavor) ==
  DepDir(FOLDER_FEED, ID_F1, flavor)
    \o DepDir(FOLDER_FEED, ID_F2, "userdefined")
    \o DepDir(FOLDER_APICONTENT, ID_A1, "userdefined")
    \o DepDir(FOLDER_PAGECONTENT, ID_PG1, "userdefined")
    \o DepDir(FOLDER_GENERATIVEAI, ID_G1, flavor)
    \o DepDir(FOLDER_PERSON, ID_P1, flavor)
    \o DepDir(FOLDER_SOUNDSET, ID_S1, flavor)
    \o (IF flavor = "missing" THEN <<>>
        ELSE DepDir(FOLDER_SOUNDSET \o SLASH \o ID_S1 \o SLASH \o FOLDER_SOUNDELEMENT,
                    ID_E1, "preInstalled")
               \o DepDir(FOLDER_SOUNDSET \o SLASH \o ID_S1 \o SLASH \o FOLDER_SOUNDELEMENT,
                         ID_F1, "unparsable")
               \o DepDir(FOLDER_SOUNDSET \o SLASH \o ID_S1 \o SLASH \o FOLDER_SOUNDELEMENT,
                         ID_P1, "userdefined"))

ZipOf(entries) == [t |-> "zip", ok |-> TRUE, entries |-> entries]

\* the files of an archive, all below one folder of it
Inside(dir, entries) ==
  Tuple([i \in 1..Len(entries) |->
           [entries[i] EXCEPT !.name = dir \o SLASH \o entries[i].name]])

\* an archive holds its entity at its root or in one folder
Layouts(entries) == {ZipOf(entries), ZipOf(Inside(N_PKG, entries))}

\* the files of a package: the program's record, a picture and the dependencies
Package(programSpec, flavor) ==
  <<File(ENTITY_JSON, JsonFile([spec |-> programSpec])), File(N_PIC_PNG, ImageBytes)>>
    \o DepTree(flavor)

\* the packages: those of FlavoredSpecs come in every flavor, and every
\* program comes with user content in both layouts
GoodZips ==
  {ZipOf(Package(ps, fl)) : ps \in FlavoredSpecs, fl \in Flavors}
    \cup UNION {Layouts(Package(ps, "userdefined")) : ps \in ProgramSpecs}

BadZips ==
  {[t |-> "zip", ok |-> FALSE, entries |-> <<>>]}
    \cup Layouts(<<File(N_NOTES_TXT, RawBytes)>>)
    \cup Layouts(<<File(ENTITY_JSON, RawBytes)>>)
    \cup Layouts(<<File(ENTITY_JSON, JsonFile(DOC_NOSPEC))>>)

ProgramEntries ==
  {File(N_SHOW_ZIP, z) : z \in GoodZips \cup BadZips}
    \cup {File(N_ALICE_JSON, JsonFile([spec |-> [name |-> N_ALICE]]))}

\* the entries that may follow the first one in a folder
SiblingEntries(top) ==
  {File(N_BROKEN_JSON, RawBytes),
   File(N_NOTES_TXT, RawBytes),
   File(N_HIDDEN, RawBytes),
   File(REPO_METADATA_FILENAME, JsonFile([name |-> "repository"])),
   Dir(N_FEATURED, <<File(N_BROKEN_JSON, RawBytes)>>)}
    \cup IF top = N_PROGRAMS
         THEN {File(N_OTHER_ZIP,
                    ZipOf(<<File(ENTITY_JSON, JsonFile([spec |-> [name |-> N_SHOW]]))>>))}
         ELSE {}

MaxSiblings == 1

\* the sequences of at most n entries of a set, with distinct names
RECURSIVE SeqsUpTo(_, _)
SeqsUpTo(S, n) ==
  IF n = 0 THEN {<<>>}
  ELSE LET shorter == SeqsUpTo(S, n - 1)
       IN shorter \cup {Append(s, e) : s \in {q \in shorter : Len(q) = n - 1}, e \in S}

DistinctNames(entries) ==
  \A i, j \in 1..Len(entries) : entries[i].name = entries[j].name => i = j

TopFolders == {N_PERSONS, N_SOUNDSETS, N_APICONTENTS, N_PROGRAMS}

FirstEntries(top) == IF top = N_PROGRAMS THEN ProgramEntries ELSE EntityEntries

\* the entries of a top-level folder: a first entry and its siblings
EntriesOf(top) ==
  {es \in {<<first>> \o more :
             first \in FirstEntries(top),
             more \in SeqsUpTo(SiblingEntries(top), MaxSiblings)} :
     DistinctNames(es)}

\* the repositories: one top-level folder of entities
Repositories == UNION {{<<Dir(top, es)>> : es \in EntriesOf(top)} : top \in TopFolders}

N_FEEDS == <<"F", "e", "e", "d", "s">>

N_GENERATIVEAIS == <<"G", "e", "n", "e", "r", "a", "t", "i", "v", "e", "A", "i", "s">>

N_PAGECONTENTS == <<"P", "a", "g", "e", "C", "o", "n", "t", "e", "n", "t", "s">>

N_BROADCASTS == <<"B", "r", "o", "a", "d", "c", "a", "s", "t", "s">>

N_CATALOGS == <<"C", "a", "t", "a", "l", "o", "g", "s">>

N_MISC == <<"M", "i", "s", "c">>

\* the nine kinds of entities and a folder of no kind
AllKinds ==
  {N_PERSONS, N_FEEDS, N_SOUNDSETS, N_GENERATIVEAIS, N_PAGECONTENTS, N_APICONTENTS,
   N_PROGRAMS, N_BROADCASTS, N_CATALOGS, N_MISC}

\* records for the digest builder: the empty record, an empty spec, dates as
\* a number, as zero, as a date string and as a string that is no date, a
\* headline, and an image reference serialized as a text that is no JSON
DigestDocs ==
  {EmptyObject,
   [spec |-> EmptyObject],
   [spec |-> [id |-> ID_P1, lastModified |-> [t |-> "number", v |-> 5]]],
   [spec |-> [name |-> N_ALICE, lastModified |-> [t |-> "number", v |-> 0]]],
   [spec |-> [lastModified |-> [t |-> "string", v |-> DATE_1970_01_02]]],
   [spec |-> [lastModified |-> [t |-> "string", v |-> N_ALICE]]],
   [spec |-> [headline |-> <<N_ALICE, N_SHOW>>,
              generatedTime |-> [t |-> "string", v |-> DATE_1970_01_02]]],
   [spec |-> [extraData |-> [data |-> [imageSourceJson |-> [text |-> "other"]]]]]}

\* the repositories of one record of one kind
DigestRepositories ==
  {<<Dir(top, <<File(N_ALICE_JSON, JsonFile(d))>>)>> : top \in AllKinds, d \in DigestDocs}

\* a SoundSet with elements in each of its BGM arrays but the empty endingBGM
DOC_SOUNDS_ALL ==
  [spec |-> [name |-> N_ALICE,
             openingBGM |-> <<[embeddedSoundBase64 |-> B64_A,
                               embeddedSoundFileName |-> N_TUNE_MP3]>>,
             talkBGM |-> SoundElements,
             newsBGM |-> <<[embeddedSoundBase64 |-> B64_A, id |-> ID_E1,
                            soundSource |-> LocalRef(N_TUNE_MP3)]>>,
             endingBGM |-> <<>>,
             jingleBGM |-> <<[embeddedSoundBase64 |-> B64_A],
                             [soundSource |-> RemoteRef(URL_REMOTE)]>>]]

\* the repository of that SoundSet
SoundRepositories == {<<Dir(N_SOUNDSETS, <<File(N_ALICE_JSON, JsonFile(DOC_SOUNDS_ALL))>>)>>}

\* archives of entities that are no Programs: an entity.json and its image
EntityArchive == ZipOf(<<File(ENTITY_JSON, JsonFile(DOC_LOCAL)), File(N_PIC_PNG, ImageBytes)>>)

ArchiveRepositories ==
  {<<Dir(top, <<File(N_SHOW_ZIP, EntityArchive)>>)>> : top \in {N_PERSONS, N_SOUNDSETS}}

N_WHATS_NEW_JSON == <<"w", "h", "a", "t", "s", "-", "n", "e", "w", ".", "j", "s", "o", "n">>

\* the news of the repository: a document that is no entity
DOC_WHATS_NEW == [entries |-> <<[title |-> N_SHOW]>>]

\* repositories with whats-new.json at the root, next to a folder of entities
NewsRepositories ==
  {<<Dir(N_PERSONS, <<File(N_ALICE_JSON, JsonFile(d))>>),
     File(N_WHATS_NEW_JSON, JsonFile(DOC_WHATS_NEW))>> : d \in {DOC_PLAIN, DOC_EMBEDDED}}

N_A_B_JSON == <<"A", " ", "B", ".", "j", "s", "o", "n">>

N_A_DASH_B_JSON == <<"A", "-", "B", ".", "j", "s", "o", "n">>

DOC_BOB == [spec |-> [name |-> N_BOB]]

\* folders whose entries differ in white space only, or are a record and an
\* entity folder of one name
SiblingRepositories ==
  {<<Dir(N_PERSONS, <<File(N_A_B_JSON, JsonFile(DOC_PLAIN)),
                      File(N_A_DASH_B_JSON, JsonFile(DOC_BOB))>>)>>,
   <<Dir(N_PERSONS, <<Dir(N_ALICE, <<File(ENTITY_JSON, JsonFile(DOC_BOB))>>),
                      File(N_ALICE_JSON, JsonFile(DOC_PLAIN))>>)>>}

\* what an earlier run left in the target folder
N_STALE == <<"o", "l", "d", ".", "t", "x", "t">>

(***************************************************************************)
(* The run: main and the walk of recurseAndBuildAllIndexes                 *)
(***************************************************************************)
VARIABLES
  src,       \* the entries of SOURCE_DIR; srcExists tells whether it exists
  srcExists,
  baseUrl,   \* BASE_URL
  now,       \* Date.now() in seconds
  pc,        \* "start", "walk", "done", "aborted" (uncaught exception), "exit1";
             \* "fresh", "once", "twice" when the rewriter is applied on its own
             \* "serving" when one of the servers runs
  stack,     \* the active calls of recurseAndBuildAllIndexes, innermost last
  outFiles,  \* the files below TARGET_DIR
  outDirs,   \* the folders below TARGET_DIR, itself included
  scratch,   \* the scratch folders that exist, named by the archive they serve
  ctr,       \* the number of generateUUID calls made
  prev,      \* the run before this one: [ran, out, now], out its output
  served,    \* local-server.js: the last request and its answer
  admin      \* metadata-admin-server.js: the repository on disk, the last
             \* request and the status of its answer

vars ==
  <<src, srcExists, baseUrl, now, pc, stack, outFiles, outDirs, scratch, ctr, prev, served,
    admin>>

\* the variables of the generator
genVars == <<src, srcExists, baseUrl, now, pc, stack, outFiles, outDirs, scratch, ctr, prev>>

\* the file server has answered no request
NoRequest == [method |-> "", url |-> <<>>, status |-> 0, file |-> <<>>]

\* the admin server is not running
NoAdmin == [disk |-> <<>>, status |-> 0, request |-> <<>>]

\* no run before this one
NoRun == [ran |-> FALSE, out |-> EmptyObject, now |-> 0]

\* the state of a call of recurseAndBuildAllIndexes at the head of its loop
Frame(entries, targetDir, webRelativePath) ==
  [entries |-> entries, i |-> 1, targetDir |-> targetDir, rel |-> webRelativePath,
   items |-> <<>>, info |-> readRepoMetadata(entries)]

Top == Last(stack)

Walking == pc = "walk" /\ Top.i <= Len(Top.entries)

Entry == Top.entries[Top.i]

nextRelativePath ==
  IF Top.rel = <<>> THEN Entry.name ELSE PathJoin(Top.rel, Entry.name)

Skipped(name) ==
  \/ StartsWith(name, DOT)
  \/ name = INDEX_JSON
  \/ name = REPO_METADATA_FILENAME

\* a variant of Advance that puts the items of the handler before the others
Advance_Prepend(items) ==
  stack' = [stack EXCEPT ![Len(stack)] =
              [@ EXCEPT !.i = @ + 1, !.items = items \o @]]

\* the loop goes on to the next entry, with the items the handler returned
Advance(items) ==
  stack' = [stack EXCEPT ![Len(stack)] =
              [@ EXCEPT !.i = @ + 1, !.items = @ \o items]]

Written(files, dirs) ==
  /\ outFiles' = files @@ outFiles
  /\ outDirs' = outDirs \cup dirs

\* the loop takes what a handler wrote and returned: r = [files, dirs, items, ctr]
Handled(r) ==
  /\ Written(r.files, r.dirs)
  /\ Advance(r.items)
  /\ ctr' = r.ctr

\* what processProgramPackageZip did; an exception it throws ends the run
Unpacked(r, zipPath) ==
  /\ Written(r.files, r.dirs)
  /\ ctr' = r.ctr
  /\ scratch' = IF r.scratchLeft THEN scratch \cup {zipPath} ELSE scratch
  /\ IF r.thrown
     THEN pc' = "aborted" /\ UNCHANGED stack
     ELSE pc' = pc /\ Advance(r.items)

\* a variant of clearDocsFolder that leaves the files of the folder
clearDocsFolder_Keep(files) == files

\* clearDocsFolder: fs.rmSync(dir, {recursive, force}) leaves no file of it
clearDocsFolder(files) == EmptyObject

\* main: exits when the source is missing, else clears the target and walks
Main ==
  /\ pc = "start"
  /\ IF ~srcExists
     THEN /\ pc' = "exit1"
          /\ UNCHANGED <<stack, outFiles, outDirs>>
     ELSE /\ pc' = "walk"
          /\ outFiles' = clearDocsFolder(outFiles)
          /\ outDirs' = {TARGET_DIR}
          /\ stack' = <<Frame(src, TARGET_DIR, <<>>)>>
  /\ UNCHANGED <<src, srcExists, baseUrl, prev, served, admin, now, scratch, ctr>>

\* hidden entries, index.json and repo-metadata.json are passed over
SkipEntry ==
  /\ Walking
  /\ Skipped(Entry.name)
  /\ Advance(<<>>)
  /\ UNCHANGED <<src, srcExists, baseUrl, prev, served, admin, now, pc, outFiles, outDirs, scratch, ctr>>

\* a folder holding entity.json is one entity
EntityFolder ==
  /\ Walking
  /\ ~Skipped(Entry.name)
  /\ Entry.k = "dir"
  /\ ExistsIn(Entry.entries, ENTITY_JSON)
  /\ Handled(processEntityFolder(Entry.entries, Top.targetDir, nextRelativePath,
                                 Entry.name, baseUrl, ctr, now))
  /\ UNCHANGED <<src, srcExists, baseUrl, prev, served, admin, now, pc, scratch>>

\* any other folder is walked by a nested call
EnterFolder ==
  /\ Walking
  /\ ~Skipped(Entry.name)
  /\ Entry.k = "dir"
  /\ ~ExistsIn(Entry.entries, ENTITY_JSON)
  /\ LET subTargetDir == PathJoin(Top.targetDir, sanitizeForFilesystem(Entry.name))
     IN /\ stack' = Append(stack, Frame(Entry.entries, subTargetDir, nextRelativePath))
        /\ outDirs' = outDirs \cup DirAndAncestors(subTargetDir)
  /\ UNCHANGED <<src, srcExists, baseUrl, prev, served, admin, now, pc, outFiles, scratch, ctr>>

IsProgramZip ==
  /\ toLowerCase(Extname(Entry.name)) = EXT_ZIP
  /\ toLowerCase(getTopLevelFolder(nextRelativePath)) = KIND_PROGRAMS

\* a .zip below Programs is unpacked; an exception it throws ends the run
ProgramZip ==
  /\ Walking
  /\ ~Skipped(Entry.name)
  /\ Entry.k = "file"
  /\ IsProgramZip
  /\ Unpacked(processProgramPackageZip(Entry.content, Entry.name, Top.targetDir,
                                       nextRelativePath, baseUrl, ctr, now,
                                       outDirs \cup DOMAIN outFiles),
              nextRelativePath)
  /\ UNCHANGED <<src, srcExists, baseUrl, prev, served, admin, now>>

\* a .json file is a standalone entity, or is copied when it does not parse
EntityJson ==
  /\ Walking
  /\ ~Skipped(Entry.name)
  /\ Entry.k = "file"
  /\ ~IsProgramZip
  /\ toLowerCase(Extname(Entry.name)) = EXT_JSON
  /\ Handled(processEntityJson(Entry.content, Entry.name, Top.targetDir,
                               nextRelativePath, baseUrl, ctr, now))
  /\ UNCHANGED <<src, srcExists, baseUrl, prev, served, admin, now, pc, scratch>>

\* any other file is copied and listed with its download URL
CopyOther ==
  /\ Walking
  /\ ~Skipped(Entry.name)
  /\ Entry.k = "file"
  /\ ~IsProgramZip
  /\ toLowerCase(Extname(Entry.name)) # EXT_JSON
  /\ LET childTargetPath == PathJoin(Top.targetDir, sanitizeForFilesystem(Entry.name))
     IN /\ Written((childTargetPath :> Entry.content),
                   DirAndAncestors(Dirname(childTargetPath)))
        /\ Advance(<<[name |-> Entry.name,
                      path |-> sanitizeForFilesystem(Entry.name),
                      isDirectory |-> FALSE,
                      downloadURL |->
                        UrlOf(baseUrl, sanitizeForFilesystem(nextRelativePath))]>>)
  /\ UNCHANGED <<src, srcExists, baseUrl, prev, served, admin, now, pc, scratch, ctr>>

\* after the loop the call writes index.json and returns; the caller then lists
\* the folder and goes on
WriteIndex ==
  /\ pc = "walk"
  /\ Top.i > Len(Top.entries)
  /\ outFiles' = (PathJoin(Top.targetDir, INDEX_JSON)
                    :> JsonFile([info |-> Top.info, items |-> Top.items])) @@ outFiles
  /\ IF Len(stack) = 1
     THEN /\ pc' = "done"
          /\ stack' = <<>>
     ELSE LET caller == stack[Len(stack) - 1]
              dirName == caller.entries[caller.i].name
          IN /\ pc' = pc
             /\ stack' = [Front(stack) EXCEPT ![Len(stack) - 1] =
                            [@ EXCEPT !.i = @ + 1,
                                      !.items = Append(@,
                                        [name |-> dirName,
                                         path |-> sanitizeForFilesystem(dirName),
                                         isDirectory |-> TRUE])]]
  /\ UNCHANGED <<src, srcExists, baseUrl, prev, served, admin, now, outDirs, scratch, ctr>>

Init ==
  /\ \/ srcExists = TRUE /\ src \in Repositories \cup DigestRepositories \cup SoundRepositories \cup ArchiveRepositories
            \cup NewsRepositories \cup SiblingRepositories
     \/ srcExists = FALSE /\ src = <<>>
  /\ baseUrl \in {URL_X, URL_X_SLASH}
  /\ now = 1000
  /\ pc = "start"
  /\ stack = <<>>
  /\ outFiles = (N_STALE :> RawBytes)
  /\ outDirs = {TARGET_DIR}
  /\ scratch = {}
  /\ ctr = 0
  /\ prev = NoRun
  /\ served = NoRequest
  /\ admin = NoAdmin

Next ==
  \/ Main
  \/ SkipEntry
  \/ EntityFolder
  \/ EnterFolder
  \/ ProgramZip
  \/ EntityJson
  \/ CopyOther
  \/ WriteIndex

Spec == Init /\ [][Next]_vars

(***************************************************************************)
(* The output of a run: the documents it holds                             *)
(***************************************************************************)
\* the paths of the output files of a given name that hold JSON
OutputDocs(name) ==
  {p \in DOMAIN outFiles : outFiles[p].t = "json" /\ Basename(p) = name}

HasNestedImage(spec) ==
  /\ Has(spec, "extraData")
  /\ Has(spec.extraData, "data")
  /\ Has(spec.extraData.data, "imageSourceJson")

\* no sound element of the BGM arrays holds a payload or a reference that is
\* not remote
SoundsRemote(spec) ==
  \A k \in 1..Len(audioKeys) :
    Has(spec, audioKeys[k]) =>
      \A i \in 1..Len(spec[audioKeys[k]]) :
        /\ ~Has(spec[audioKeys[k]][i], "embeddedSoundBase64")
        /\ Has(spec[audioKeys[k]][i], "soundSource") =>
             spec[audioKeys[k]][i].soundSource.kind = "remote"

AllRemote(spec) ==
  /\ ~Has(spec, "embeddedImageBase64")
  /\ Has(spec, "imageSource") => spec.imageSource.kind = "remote"
  /\ (HasNestedImage(spec) /\ JSONparse(spec.extraData.data.imageSourceJson).ok) =>
       JSONparse(spec.extraData.data.imageSourceJson).v.kind = "remote"
  /\ SoundsRemote(spec)

\* C1: when the run is complete, no entity.json of the output holds an
\* embedded payload, and every image reference (spec.imageSource or the
\* serialized spec.extraData.data.imageSourceJson) and every soundSource of a
\* sound element is tagged remote.
C1_EveryReferenceRemote ==
  pc = "done" =>
    \A p \in OutputDocs(ENTITY_JSON) : AllRemote(SpecOf(outFiles[p].json))

\* the folders of the output for which recurseAndBuildAllIndexes is called
RECURSIVE WalkedDirs(_, _)
WalkedDirs(entries, targetDir) ==
  {targetDir}
    \cup UNION {IF /\ entries[i].k = "dir"
                   /\ ~Skipped(entries[i].name)
                   /\ ~ExistsIn(entries[i].entries, ENTITY_JSON)
                THEN WalkedDirs(entries[i].entries,
                                PathJoin(targetDir,
                                         sanitizeForFilesystem(entries[i].name)))
                ELSE {} : i \in 1..Len(entries)}

\* C2: no failure on one entry aborts the run, and when the run is complete
\* every folder that was walked has its index.json.
C2_FailuresIsolated ==
  /\ pc # "aborted"
  /\ pc = "done" =>
       \A d \in WalkedDirs(src, TARGET_DIR) : PathJoin(d, INDEX_JSON) \in DOMAIN outFiles

\* the .json files of the walked folders that do not parse, each with the
\* path of its folder from the root of the source
RECURSIVE UnparsedJson(_, _)
UnparsedJson(entries, rel) ==
  UNION {IF Skipped(entries[i].name) THEN {}
         ELSE IF entries[i].k = "dir"
         THEN (IF ExistsIn(entries[i].entries, ENTITY_JSON) THEN {}
               ELSE UnparsedJson(entries[i].entries,
                                 PathJoin(rel, entries[i].name)))
         ELSE IF /\ toLowerCase(Extname(entries[i].name)) = EXT_JSON
                 /\ ~parseJsonFile(entries[i].content).ok
         THEN {[dir |-> rel, name |-> entries[i].name, content |-> entries[i].content]}
         ELSE {} : i \in 1..Len(entries)}

\* the items of the index.json of a folder of the output
IndexItems(dir) == outFiles[PathJoin(dir, INDEX_JSON)].json.items

\* C3: when the run is complete, every .json file that did not parse is in
\* the output at its place with its bytes, and the index.json of its folder
\* lists it as a plain file with its download URL and not as an entity.
C3_UnparsedJsonCopiedAndListed ==
  pc = "done" =>
    \A f \in UnparsedJson(src, <<>>) :
      /\ PathJoin(f.dir, f.name) \in DOMAIN outFiles
      /\ outFiles[PathJoin(f.dir, f.name)] = f.content
      /\ \E i \in 1..Len(IndexItems(f.dir)) :
           /\ IndexItems(f.dir)[i].name = f.name
           /\ IndexItems(f.dir)[i].path = f.name
           /\ ~IndexItems(f.dir)[i].isDirectory
           /\ Has(IndexItems(f.dir)[i], "downloadURL")
           /\ IndexItems(f.dir)[i].downloadURL
                = baseUrl \o SLASH \o PathJoin(f.dir, f.name)
      /\ \A i \in 1..Len(IndexItems(f.dir)) :
           IndexItems(f.dir)[i].name = f.name => ~Has(IndexItems(f.dir)[i], "digest")

\* the first entry of the one top-level folder of the source
FirstEntry == src[1].entries[1]

\* the source holds Persons/Alice.json with the record
\* {spec: {name: "Alice", embeddedImageBase64: "QUJD"}}
AliceEmbedded ==
  /\ srcExists
  /\ src[1].name = N_PERSONS
  /\ FirstEntry.k = "file"
  /\ FirstEntry.name = N_ALICE_JSON
  /\ FirstEntry.content = JsonFile(DOC_EMBEDDED)

P_ALICE_ENTITY == <<"P", "e", "r", "s", "o", "n", "s", "/", "A", "l", "i", "c", "e",
                    "/", "e", "n", "t", "i", "t", "y", ".", "j", "s", "o", "n">>

P_ALICE_IMAGE == <<"P", "e", "r", "s", "o", "n", "s", "/", "A", "l", "i", "c", "e",
                   "/", "p", "e", "r", "s", "o", "n", ".", "p", "n", "g">>

\* the output holds Persons/Alice/entity.json with an image at the URL and no
\* embedded field, and Persons/Alice/person.png with the bytes of "QUJD"
AliceWritten(url) ==
  /\ P_ALICE_ENTITY \in DOMAIN outFiles
  /\ outFiles[P_ALICE_ENTITY].t = "json"
  /\ outFiles[P_ALICE_ENTITY].json.spec.imageSource = [kind |-> "remote", url |-> url]
  /\ ~Has(outFiles[P_ALICE_ENTITY].json.spec, "embeddedImageBase64")
  /\ P_ALICE_IMAGE \in DOMAIN outFiles
  /\ outFiles[P_ALICE_IMAGE] = [t |-> "bytes", bytes |-> <<65, 66, 67>>]

\* C4 as stated: with the base URL http://x/ the image of Persons/Alice.json
\* gets the URL http://x/Persons/Alice/person.png.
C4_UrlAsStated ==
  (pc = "done" /\ AliceEmbedded /\ baseUrl = URL_X_SLASH) =>
    AliceWritten(<<"h", "t", "t", "p", ":", "/", "/", "x", "/", "P", "e", "r", "s",
                   "o", "n", "s", "/", "A", "l", "i", "c", "e", "/", "p", "e", "r",
                   "s", "o", "n", ".", "p", "n", "g">>)

\* C4: for Persons/Alice.json with an embedded image, the run writes
\* Persons/Alice/entity.json without the embedded field and with the remote
\* image URL made of the base URL, a slash and Persons/Alice/person.png
\* (http://x//Persons/Alice/person.png for the base URL http://x/), and it
\* writes Persons/Alice/person.png with the decoded bytes.
C4_UrlIsBaseSlashPath ==
  (pc = "done" /\ AliceEmbedded) =>
    AliceWritten(IF baseUrl = URL_X_SLASH
                 THEN <<"h", "t", "t", "p", ":", "/", "/", "x", "/", "/", "P", "e",
                        "r", "s", "o", "n", "s", "/", "A", "l", "i", "c", "e", "/",
                        "p", "e", "r", "s", "o", "n", ".", "p", "n", "g">>
                 ELSE <<"h", "t", "t", "p", ":", "/", "/", "x", "/", "P", "e", "r",
                        "s", "o", "n", "s", "/", "A", "l", "i", "c", "e", "/", "p",
                        "e", "r", "s", "o", "n", ".", "p", "n", "g">>)

C4_Witness ==
  /\ pc = "done"
  /\ AliceEmbedded
  /\ baseUrl = URL_X_SLASH
  /\ P_ALICE_IMAGE \in DOMAIN outFiles

\* the source holds Persons/Alice.json, a record that parses, and nothing else
AliceAlone ==
  /\ srcExists
  /\ src[1].name = N_PERSONS
  /\ Len(src[1].entries) = 1
  /\ FirstEntry.k = "file"
  /\ FirstEntry.name = N_ALICE_JSON
  /\ parseJsonFile(FirstEntry.content).ok

\* Persons/index.json lists one item, with the path and the digest name Alice
AliceListed(path) ==
  /\ Len(IndexItems(N_PERSONS)) = 1
  /\ IndexItems(N_PERSONS)[1].path = path
  /\ IndexItems(N_PERSONS)[1].digest.name = N_ALICE

\* C5 as stated: the item of Persons/Alice.json has the path "Alice".
C5_PathAsStated == (pc = "done" /\ AliceAlone) => AliceListed(N_ALICE)

\* C5: for the source Persons/Alice.json, Persons/index.json lists exactly one
\* item, whose path is the path from the root of the output, Persons/Alice,
\* and whose digest has the name Alice.
C5_PathFromRoot == (pc = "done" /\ AliceAlone) => AliceListed(
  <<"P", "e", "r", "s", "o", "n", "s", "/", "A", "l", "i", "c", "e">>)

C5_Witness ==
  /\ pc = "done"
  /\ AliceAlone
  /\ Len(IndexItems(N_PERSONS)) = 1

\* the URL a rewritten record holds for its image: in spec.imageSource, or
\* serialized in spec.extraData.data.imageSourceJson
ImageUrl(spec) ==
  IF Has(spec, "imageSource") THEN spec.imageSource.url
  ELSE JSONparse(spec.extraData.data.imageSourceJson).v.url

\* the first entry is an entity with an embedded image, as a file Alice.json
\* or as a folder Bob that holds entity.json
EmbeddedFirst ==
  /\ srcExists
  /\ src[1].name # N_PROGRAMS
  /\ \/ /\ FirstEntry.k = "file"
        /\ FirstEntry.name = N_ALICE_JSON
        /\ FirstEntry.content = JsonFile(DOC_EMBEDDED)
     \/ /\ FirstEntry.k = "dir"
        /\ FirstEntry.name = N_BOB
        /\ FirstEntry.entries[1].content = JsonFile(DOC_EMBEDDED)

\* the folder of that entity in the output
EmbeddedFolder ==
  PathJoin(src[1].name, IF FirstEntry.k = "file" THEN N_ALICE ELSE N_BOB)

\* C6: for an entity with an embedded image, from a file or from a folder,
\* the image is written into the entity's folder and the URL in the written
\* record is the base URL, a slash and the path of that file in the output.
C6_UrlIsPathOfImage ==
  (pc = "done" /\ EmbeddedFirst) =>
    /\ PathJoin(EmbeddedFolder, getEntityImageFilename(src[1].name)) \in DOMAIN outFiles
    /\ ImageUrl(outFiles[PathJoin(EmbeddedFolder, ENTITY_JSON)].json.spec)
         = baseUrl \o SLASH
             \o PathJoin(EmbeddedFolder, getEntityImageFilename(src[1].name))

\* C7: no scratch folder exists once processProgramPackageZip has ended.
C7_ScratchRemoved == scratch = {}

\* the loop is at a .zip file below Programs
ZipAtHand == Walking /\ ~Skipped(Entry.name) /\ Entry.k = "file" /\ IsProgramZip

\* the files of the entity folder of an archive
PackageFiles(zip) == FilesIn(zip.entries, walkForEntityJson(zip.entries).entityDir)

\* the archive can be opened and holds a program record that has a spec
GoodPackage(zip) ==
  /\ zip.t = "zip"
  /\ zip.ok
  /\ walkForEntityJson(zip.entries).found
  /\ ParseAt(PackageFiles(zip), ENTITY_JSON).ok
  /\ Has(ParseAt(PackageFiles(zip), ENTITY_JSON).v, "spec")

\* the bundles that the step writes
NewBundles ==
  {p \in DOMAIN outFiles' \ DOMAIN outFiles :
     outFiles'[p].t = "json" /\ Basename(p) = ENTITY_DEPS_JSON}

\* the folder of a package that holds the entities of a list of the bundle
depFolder(key) ==
  CASE key = "persons" -> FOLDER_PERSON
    [] key = "soundSets" -> FOLDER_SOUNDSET
    [] key = "feeds" -> FOLDER_FEED
    [] key = "apiContents" -> FOLDER_APICONTENT
    [] key = "pageContents" -> FOLDER_PAGECONTENT
    [] key = "generativeAis" -> FOLDER_GENERATIVEAI

\* the outcome of reading <folder>/<id>/entity.json in a package
DocOf(pkg, key, id) ==
  ParseAt(pkg, PathJoin(PathJoin(depFolder(key), id), ENTITY_JSON))

BuiltIn(doc) ==
  Has(SpecOf(doc), "type") /\ SpecOf(doc).type \in {"predefined", "preInstalled"}

lookedUpKeys ==
  {"persons", "soundSets", "feeds", "apiContents", "pageContents", "generativeAis"}

\* C8: in the bundle that the unpacking of a package writes, no record of
\* persons, soundSets, feeds, apiContents, pageContents or generativeAis is
\* predefined or preInstalled, and each is the record of an entity document
\* that the package holds and that parses; a package whose program record has
\* a spec gets its bundle whatever the ids it names resolve to.
C8_BundleWithoutBuiltInOrMissing ==
  [][ZipAtHand =>
       /\ \A p \in NewBundles : \A key \in lookedUpKeys :
            \A i \in 1..Len(outFiles'[p].json.dependencies[key]) :
              /\ ~BuiltIn(outFiles'[p].json.dependencies[key][i])
              /\ DocOf(PackageFiles(Entry.content), key,
                       SpecOf(outFiles'[p].json.dependencies[key][i]).id).ok
       /\ (Top.i = 1 /\ GoodPackage(Entry.content)) =>
            (pc' = pc /\ NewBundles # {})]_vars

\* the first entry is the package of a program that names the feed f1, which
\* the package holds as a predefined record
PredefinedFirst ==
  /\ srcExists
  /\ src[1].name = N_PROGRAMS
  /\ FirstEntry.k = "file"
  /\ FirstEntry.content
       = ZipOf(Package([name |-> N_SHOW, feedIds |-> <<ID_F1>>], "predefined"))

P_SHOW_BUNDLE == <<"P", "r", "o", "g", "r", "a", "m", "s", "/", "S", "h", "o", "w",
                   "/", "e", "n", "t", "i", "t", "y", "+", "d", "e", "p", "s", ".",
                   "j", "s", "o", "n">>

C8_Witness ==
  /\ pc = "done"
  /\ PredefinedFirst
  /\ P_SHOW_BUNDLE \in DOMAIN outFiles
  /\ outFiles[P_SHOW_BUNDLE].json.dependencies.feeds = <<>>

\* C9: no record is twice in persons, feeds, apiContents, pageContents or
\* generativeAis of a bundle.
C9_ListsDeduplicated ==
  \A p \in OutputDocs(ENTITY_DEPS_JSON) :
    Has(outFiles[p].json, "dependencies") =>
      \A key \in {"persons", "feeds", "apiContents", "pageContents", "generativeAis"} :
        \A i, j \in 1..Len(outFiles[p].json.dependencies[key]) :
          outFiles[p].json.dependencies[key][i] = outFiles[p].json.dependencies[key][j]
            => i = j

\* the ids that segments name in field k (of their source when inSource), at
\* every depth of subSegments
RECURSIVE NamedInSegments(_, _, _)
NamedInSegments(segs, k, inSource) ==
  UNION {(IF inSource
          THEN (IF Has(segs[i], "source") /\ TruthyStr(segs[i].source, k)
                THEN {segs[i].source[k]} ELSE {})
          ELSE (IF TruthyStr(segs[i], k) THEN {segs[i][k]} ELSE {}))
           \cup (IF Has(segs[i], "subSegments")
                 THEN NamedInSegments(segs[i].subSegments, k, inSource)
                 ELSE {}) : i \in 1..Len(segs)}

\* the ids that a program spec names for a list of the bundle
NamedIds(programSpec, key) ==
  LET segs == IF Has(programSpec, "programSegments")
              THEN programSpec.programSegments ELSE <<>>
      top(k) == IF Has(programSpec, k) THEN {programSpec[k][i] : i \in DOMAIN programSpec[k]}
                ELSE {}
      model(k) == IF TruthyStr(programSpec, k) THEN {programSpec[k]} ELSE {}
  IN CASE key = "feeds" -> top("feedIds") \cup NamedInSegments(segs, "feedId", TRUE)
       [] key = "apiContents" ->
            top("apiContentIds") \cup NamedInSegments(segs, "apiContentId", TRUE)
       [] key = "pageContents" ->
            top("pageContentIds") \cup NamedInSegments(segs, "pageContentId", TRUE)
       [] key = "generativeAis" ->
            model("generatorModelId") \cup model("summarizerModelId")
              \cup model("translatorModelId") \cup model("coverImageModelId")
              \cup NamedInSegments(segs, "generativeAiId", FALSE)

\* the records a list of the bundle must hold: those of the named ids whose
\* entity document is in the package, parses and is not built in
ExpectedRecords(pkg, programSpec, key) ==
  {DocOf(pkg, key, id).v :
     id \in {n \in NamedIds(programSpec, key) :
               DocOf(pkg, key, n).ok /\ ~BuiltIn(DocOf(pkg, key, n).v)}}

\* C10: in the bundle that the unpacking of a package writes, feeds,
\* apiContents, pageContents and generativeAis hold the records of the ids
\* that the program names at the top level and in its segments at every depth
\* and that resolve to a record that is not built in, and no other record;
\* for feedIds: ["f1"] the list feeds is that one record when feed/f1 is
\* user content, and it is empty when feed/f1 is predefined.
C10_BundleCompleteAndExact ==
  [][ZipAtHand =>
       \A p \in NewBundles :
         /\ \A key \in {"feeds", "apiContents", "pageContents", "generativeAis"} :
              {outFiles'[p].json.dependencies[key][i] :
                 i \in 1..Len(outFiles'[p].json.dependencies[key])}
                = ExpectedRecords(PackageFiles(Entry.content),
                            ParseAt(PackageFiles(Entry.content), ENTITY_JSON).v.spec, key)
         /\ ParseAt(PackageFiles(Entry.content), ENTITY_JSON).v.spec
              = [name |-> N_SHOW, feedIds |-> <<ID_F1>>] =>
              outFiles'[p].json.dependencies.feeds
                = (IF DocOf(PackageFiles(Entry.content), "feeds", ID_F1).ok
                      /\ ~BuiltIn(DocOf(PackageFiles(Entry.content), "feeds", ID_F1).v)
                   THEN <<DocOf(PackageFiles(Entry.content), "feeds", ID_F1).v>>
                   ELSE <<>>)]_vars

\* the first entry is the package of a program whose segment names the feed
\* f2 below subSegments, and the bundle written for it holds the feed f2
C10_Witness ==
  /\ pc = "done"
  /\ srcExists
  /\ src[1].name = N_PROGRAMS
  /\ FirstEntry.k = "file"
  /\ FirstEntry.content =
       ZipOf(Package([name |-> N_SHOW, generatorModelId |-> ID_G1,
                      feedIds |-> <<ID_F1>>,
                      programSegments |-> <<NestedSegment(2)>>], "userdefined"))
  /\ P_SHOW_BUNDLE \in DOMAIN outFiles
  /\ \E i \in 1..Len(outFiles[P_SHOW_BUNDLE].json.dependencies.feeds) :
       SpecOf(outFiles[P_SHOW_BUNDLE].json.dependencies.feeds[i]).id = ID_F2

\* the records that the lists of a bundle of the output hold
BundleRecords(p) ==
  UNION {{outFiles[p].json.dependencies[depKeys[k]][i] :
            i \in 1..Len(outFiles[p].json.dependencies[depKeys[k]])} :
           k \in 1..Len(depKeys)}

\* C11: when the run is complete, no record listed in the dependencies of an
\* entity+deps.json of the output holds an embedded payload or a reference
\* that is tagged local or generated.
C11_BundledRecordsRemote ==
  pc = "done" =>
    \A p \in OutputDocs(ENTITY_DEPS_JSON) :
      Has(outFiles[p].json, "dependencies") =>
        \A r \in BundleRecords(p) : AllRemote(SpecOf(r))

\* C12: the target folder is cleared before the run writes anything: once
\* the walk has begun, the file an earlier run left is not in the output, and
\* a run that finds no source folder writes nothing.
C12_OutputCleared ==
  /\ pc \in {"walk", "done", "aborted"} => N_STALE \notin DOMAIN outFiles
  /\ pc \in {"start", "exit1"} => outFiles = (N_STALE :> RawBytes)

\* the run is complete and has written the index of the root
C12_Witness ==
  /\ pc = "done"
  /\ INDEX_JSON \in DOMAIN outFiles
  /\ N_STALE \notin DOMAIN outFiles

\* the digests that the index files of the output list
ListedDigests ==
  UNION {{outFiles[p].json.items[i].digest :
            i \in {j \in 1..Len(outFiles[p].json.items) :
                     Has(outFiles[p].json.items[j], "digest")}} :
           p \in OutputDocs(INDEX_JSON)}

\* the source is one record in a file of a folder of one kind
OneRecord ==
  /\ srcExists
  /\ Len(src) = 1
  /\ Len(src[1].entries) = 1
  /\ FirstEntry.k = "file"
  /\ FirstEntry.name = N_ALICE_JSON
  /\ parseJsonFile(FirstEntry.content).ok

\* C13: buildDigest gives a digest for every record of every kind: the
\* handler of a record that parses never fails, it lists the record with its
\* digest, and every digest listed has entityType, id and lastModified, the
\* id being the record's own when it has one.
C13_DigestTotal ==
  /\ \A d \in ListedDigests : {"entityType", "id", "lastModified"} \subseteq DOMAIN d
  /\ OneRecord => pc # "aborted"
  /\ (OneRecord /\ pc = "done") =>
       /\ Len(IndexItems(src[1].name)) = 1
       /\ Has(IndexItems(src[1].name)[1], "digest")
       /\ IndexItems(src[1].name)[1].digest.lastModified \in Nat
       /\ IndexItems(src[1].name)[1].digest.id # <<>>
       /\ TruthyStr(SpecOf(parseJsonFile(FirstEntry.content).v), "id") =>
            IndexItems(src[1].name)[1].digest.id
              = SpecOf(parseJsonFile(FirstEntry.content).v).id

\* the empty record in a folder of no kind is listed with a digest
C13_Witness ==
  /\ pc = "done"
  /\ OneRecord
  /\ src[1].name = N_MISC
  /\ FirstEntry.content = JsonFile(EmptyObject)
  /\ Len(IndexItems(N_MISC)) = 1
  /\ IndexItems(N_MISC)[1].digest.entityType = "Unknown"

(***************************************************************************)
(* The rewriter on its own: extractEmbeddedMediaAndRewrite is applied to   *)
(* the record of <top>/Alice.json with the arguments processEntityJson     *)
(* gives it, the record is written to <top>/Alice/entity.json, and the     *)
(* rewriter is applied again to the record written.                        *)
(***************************************************************************)
DOC_REMOTE_SOUNDS ==
  [spec |-> [name |-> N_ALICE, imageSource |-> RemoteRef(URL_REMOTE),
             talkBGM |-> <<[id |-> ID_E1, soundSource |-> RemoteRef(URL_REMOTE)]>>]]

DOC_REMOTE_NESTED ==
  [spec |-> [name |-> N_ALICE,
             extraData |-> [data |-> [imageSourceJson |->
                                        JSONstringify(RemoteRef(URL_REMOTE))]]]]

RewriteDocs == EntityDocs \cup {EmptyObject, DOC_REMOTE_SOUNDS, DOC_REMOTE_NESTED}

\* the folder and the file of the entity in the output
AliceFolder == PathJoin(src[1].name, N_ALICE)

AliceRecordPath == PathJoin(AliceFolder, ENTITY_JSON)

\* the record the rewriter is applied to next
Record ==
  IF pc = "fresh" THEN src[1].entries[1].content.json ELSE outFiles[AliceRecordPath].json

\* the rewriter applied to a record of the entity
Rewritten(json) ==
  extractEmbeddedMediaAndRewrite(json, AliceFolder, getEntityImageFilename(src[1].name),
                                 PathJoin(src[1].name, N_ALICE_JSON), baseUrl, ctr)

\* what an application wrote is in the output, with the record it gave
Applied(r) ==
  /\ outFiles' = (AliceRecordPath :> JsonFile(r.json)) @@ r.files @@ outFiles
  /\ outDirs' = outDirs \cup DirAndAncestors(AliceFolder) \cup r.dirs
  /\ ctr' = r.ctr

RewriteOnce ==
  /\ pc = "fresh"
  /\ pc' = "once"
  /\ Applied(Rewritten(Record))
  /\ UNCHANGED <<src, srcExists, baseUrl, prev, served, admin, now, stack, scratch>>

RewriteAgain ==
  /\ pc = "once"
  /\ pc' = "twice"
  /\ Applied(Rewritten(Record))
  /\ UNCHANGED <<src, srcExists, baseUrl, prev, served, admin, now, stack, scratch>>

InitRewrite ==
  /\ srcExists = TRUE
  /\ src \in {<<Dir(top, <<File(N_ALICE_JSON, JsonFile(d))>>)>> :
                top \in TopFolders, d \in RewriteDocs}
  /\ baseUrl \in {URL_X, URL_X_SLASH}
  /\ now = 1000
  /\ pc = "fresh"
  /\ stack = <<>>
  /\ outFiles = EmptyObject
  /\ outDirs = {TARGET_DIR}
  /\ scratch = {}
  /\ ctr = 0
  /\ prev = NoRun
  /\ served = NoRequest
  /\ admin = NoAdmin

NextRewrite ==
  \/ RewriteOnce
  \/ RewriteAgain

SpecRewrite == InitRewrite /\ [][NextRewrite]_vars

\* the application wrote nothing but the record, and the record as it was
NoOp == outFiles' = (AliceRecordPath :> JsonFile(Record)) @@ outFiles

\* C14 as stated: the rewriter applied to a record that holds no embedded
\* payload and no reference that is not remote writes no file and leaves the
\* record as it is.
C14_RemoteRecordUnchanged ==
  [][(pc = "fresh" /\ AllRemote(SpecOf(Record))) => NoOp]_vars

\* C14: the rewriter applied to a record that has a spec with no embedded
\* payload and no reference that is not remote writes no file and leaves the
\* record as it is; and applied to the record that a first application gave,
\* for any record, it writes no file and leaves the record as it is.
C14_RewriterIdempotent ==
  [][/\ (pc = "fresh" /\ Has(Record, "spec") /\ AllRemote(SpecOf(Record))) => NoOp
     /\ pc = "once" => NoOp]_vars

\* the rewriter was applied twice to a record with a local image reference,
\* which the first application made remote
C14_Witness ==
  /\ pc = "twice"
  /\ src[1].entries[1].content = JsonFile(DOC_LOCAL)
  /\ src[1].name = N_PERSONS
  /\ outFiles[AliceRecordPath].json.spec.imageSource.kind = "remote"

\* the spec holds no image, embedded or referenced, and no sound element
NoMedia(spec) ==
  /\ ~Has(spec, "embeddedImageBase64")
  /\ ~Has(spec, "imageSource")
  /\ ~HasNestedImage(spec)
  /\ \A k \in 1..Len(audioKeys) : ~Has(spec, audioKeys[k])

\* the first entry of the source is a file Alice.json whose record holds no
\* media, and the run is complete
PlainFirst ==
  /\ pc = "done"
  /\ srcExists
  /\ FirstEntry.k = "file"
  /\ FirstEntry.name = N_ALICE_JSON
  /\ parseJsonFile(FirstEntry.content).ok
  /\ NoMedia(SpecOf(FirstEntry.content.json))

\* C15 as stated: the record written is the record of the source, but for an
\* id in its spec when the source has none.
C15_RoundTripButForId ==
  PlainFirst =>
    /\ AliceRecordPath \in DOMAIN outFiles
    /\ \/ outFiles[AliceRecordPath] = JsonFile(FirstEntry.content.json)
       \/ /\ ~TruthyStr(SpecOf(FirstEntry.content.json), "id")
          /\ Has(outFiles[AliceRecordPath].json, "spec")
          /\ Has(outFiles[AliceRecordPath].json.spec, "id")
          /\ outFiles[AliceRecordPath]
               = JsonFile(With(FirstEntry.content.json, "spec",
                               With(SpecOf(FirstEntry.content.json), "id",
                                    outFiles[AliceRecordPath].json.spec.id)))

\* C15: a standalone record that holds no media is written to entity.json
\* with every field as it is in the source and no id added; a record that has
\* no spec is written with an empty spec added.
C15_RoundTrip ==
  PlainFirst =>
    /\ AliceRecordPath \in DOMAIN outFiles
    /\ outFiles[AliceRecordPath]
         = JsonFile(IF Has(FirstEntry.content.json, "spec")
                    THEN FirstEntry.content.json
                    ELSE With(FirstEntry.content.json, "spec", EmptyObject))

\* a record with an id and a field the program does not know is written
C15_Witness ==
  /\ PlainFirst
  /\ FirstEntry.content = JsonFile(DOC_PLAIN)
  /\ outFiles[AliceRecordPath].json.spec.custom = "kept"

\* the first entry of the source is a standalone record of SoundSets, and
\* the run is complete
SoundSetFirst ==
  /\ pc = "done"
  /\ srcExists
  /\ src[1].name = N_SOUNDSETS
  /\ FirstEntry.k = "file"
  /\ FirstEntry.name = N_ALICE_JSON
  /\ parseJsonFile(FirstEntry.content).ok

\* the element written for an element of the source that held a payload
SoundExtracted(element) ==
  /\ Has(element, "soundSource")
  /\ element.soundSource.kind = "remote"
  /\ ~Has(element, "embeddedSoundBase64")
  /\ ~Has(element, "embeddedSoundFileName")

ArchiveFirst ==
  /\ pc = "done"
  /\ srcExists
  /\ FirstEntry.k = "file"
  /\ FirstEntry.name = N_SHOW_ZIP
  /\ FirstEntry.content.t = "zip"
  /\ FirstEntry.content.ok

\* C17: when the run is complete, an archive of a Program has become a
\* folder with entity+deps.json, and an archive of any other kind has become
\* a folder with entity.json, listed in the manifest of its directory with a
\* digest.
C17_ArchivesUnpacked ==
  /\ (ArchiveFirst /\ src[1].name = N_PROGRAMS /\ GoodPackage(FirstEntry.content))
       => OutputDocs(ENTITY_DEPS_JSON) # {}
  /\ (ArchiveFirst /\ src[1].name # N_PROGRAMS)
       => /\ OutputDocs(ENTITY_JSON) # {}
          /\ \E i \in 1..Len(IndexItems(src[1].name)) :
               Has(IndexItems(src[1].name)[i], "digest")

\* whats-new.json is at the root of the source, and the run is complete
NewsAtRoot ==
  /\ pc = "done"
  /\ srcExists
  /\ \E i \in 1..Len(src) : src[i].k = "file" /\ src[i].name = N_WHATS_NEW_JSON

\* C18: when the run is complete, a whats-new.json at the root of the source
\* is at the root of the output with the same content, and is no entity: no
\* item of the root manifest holds a digest.
C18_WhatsNewCopied ==
  NewsAtRoot =>
    /\ N_WHATS_NEW_JSON \in DOMAIN outFiles
    /\ \A i \in 1..Len(src) :
         (src[i].k = "file" /\ src[i].name = N_WHATS_NEW_JSON)
           => outFiles[N_WHATS_NEW_JSON] = src[i].content
    /\ \A i \in 1..Len(IndexItems(<<>>)) : ~Has(IndexItems(<<>>)[i], "digest")

(***************************************************************************)
(* Two runs in succession on one source                                    *)
(***************************************************************************)
\* a folder with an entry for each branch of the walk
MixedFolder ==
  Dir(N_PERSONS,
      <<File(N_ALICE_JSON, JsonFile(DOC_PLAIN)),
        File(N_HIDDEN, RawBytes),
        File(N_NOTES_TXT, RawBytes),
        Dir(N_FEATURED, <<File(N_ALICE_JSON, JsonFile(DOC_EMBEDDED))>>),
        Dir(N_BOB, <<File(ENTITY_JSON, JsonFile(DOC_LOCAL)), File(N_PIC_PNG, ImageBytes)>>)>>)

TwiceRepositories ==
  {<<MixedFolder>>}
    \cup {<<Dir(N_PROGRAMS, <<File(N_SHOW_ZIP, z)>>)>> : z \in GoodZips}
    \cup DigestRepositories
    \cup SoundRepositories

InitTwice ==
  /\ srcExists = TRUE
  /\ src \in TwiceRepositories
  /\ baseUrl = URL_X
  /\ now = 1000
  /\ pc = "start"
  /\ stack = <<>>
  /\ outFiles = EmptyObject
  /\ outDirs = {TARGET_DIR}
  /\ scratch = {}
  /\ ctr = 0
  /\ prev = NoRun
  /\ served = NoRequest
  /\ admin = NoAdmin

\* the program is started again on the same source, at the same second or a
\* later one; the generator of identifiers gives the identifiers of the
\* first run once more, so that the two outputs differ in an identifier only
\* if they differ in more than their fresh identifiers
Rerun ==
  /\ pc = "done"
  /\ ~prev.ran
  /\ prev' = [ran |-> TRUE, out |-> outFiles, now |-> now]
  /\ pc' = "start"
  /\ now' \in {now, now + 1}
  /\ ctr' = 0
  /\ stack' = <<>>
  /\ UNCHANGED <<src, srcExists, baseUrl, outFiles, outDirs, scratch, served, admin>>

NextTwice ==
  \/ Main
  \/ SkipEntry
  \/ EntityFolder
  \/ EnterFolder
  \/ ProgramZip
  \/ EntityJson
  \/ CopyOther
  \/ WriteIndex
  \/ Rerun

SpecTwice == InitTwice /\ [][NextTwice]_vars

SecondDone == prev.ran /\ pc = "done"

ClockFields == {"lastModified", "generatedTime"}

\* the item of the second run is the item of the first, but for the fields
\* of its digest that hold the time of the run in both
SameItem(a, b) ==
  \/ a = b
  \/ /\ Has(a, "digest")
     /\ Has(b, "digest")
     /\ Without(a, "digest") = Without(b, "digest")
     /\ DOMAIN a.digest = DOMAIN b.digest
     /\ \A f \in DOMAIN a.digest :
          \/ a.digest[f] = b.digest[f]
          \/ f \in ClockFields /\ a.digest[f] = now /\ b.digest[f] = prev.now

RECURSIVE WalkedFolders(_, _, _)
WalkedFolders(entries, targetDir, top) ==
  {[dir |-> targetDir, entries |-> entries, top |-> top]}
    \cup UNION {IF /\ entries[i].k = "dir"
                   /\ ~Skipped(entries[i].name)
                   /\ ~ExistsIn(entries[i].entries, ENTITY_JSON)
                THEN WalkedFolders(entries[i].entries,
                                   PathJoin(targetDir,
                                            sanitizeForFilesystem(entries[i].name)),
                                   IF top = <<>> THEN entries[i].name ELSE top)
                ELSE {} : i \in 1..Len(entries)}

\* the top-level folder of an entry of a call
TopOf(w, entry) == IF w.top = <<>> THEN entry.name ELSE w.top

IsPackage(entry, top) ==
  /\ entry.k = "file"
  /\ toLowerCase(Extname(entry.name)) = EXT_ZIP
  /\ toLowerCase(top) = KIND_PROGRAMS

IsRecord(entry, top) ==
  /\ entry.k = "file"
  /\ ~IsPackage(entry, top)
  /\ toLowerCase(Extname(entry.name)) = EXT_JSON

IsEntityFolder(entry) == entry.k = "dir" /\ ExistsIn(entry.entries, ENTITY_JSON)

\* the entry is passed over, or its handler returns nothing: a record or an
\* entity folder whose JSON does not parse, a package without a record
Unlisted(entry, top) ==
  \/ Skipped(entry.name)
  \/ IsEntityFolder(entry) /\ ~EntityJsonOf(entry.entries).ok
  \/ IsRecord(entry, top) /\ ~parseJsonFile(entry.content).ok
  \/ /\ IsPackage(entry, top)
     /\ ~(/\ entry.content.t = "zip"
          /\ entry.content.ok
          /\ walkForEntityJson(entry.content.entries).found
          /\ ParseAt(PackageFiles(entry.content), ENTITY_JSON).ok)

\* the item is the one the walk lists for the entry
MatchItem(entry, top, item) ==
  IF entry.k = "dir" /\ ~IsEntityFolder(entry)
  THEN item = [name |-> entry.name, path |-> sanitizeForFilesystem(entry.name),
               isDirectory |-> TRUE]
  ELSE IF IsEntityFolder(entry)
  THEN /\ Has(item, "digest")
       /\ Basename(item.path) = sanitizeForFilesystem(entry.name)
  ELSE IF IsRecord(entry, top)
  THEN /\ Has(item, "digest")
       /\ Basename(item.path) = sanitizeForFilesystem(stripJsonExtension(entry.name))
  ELSE IF IsPackage(entry, top)
  THEN Has(item, "digest")
  ELSE /\ Has(item, "downloadURL")
       /\ item.name = entry.name

\* the entries of a call that are listed, in the order of the listing
Listed(w) == SelectSeq(w.entries, LAMBDA e : ~Unlisted(e, TopOf(w, e)))

\* when the run is complete, the items of the manifest of each walked
\* directory are those of its listed entries, in the order of the listing
ItemsInOrder ==
  (pc = "done" /\ srcExists) =>
    \A w \in WalkedFolders(src, TARGET_DIR, <<>>) :
      /\ PathJoin(w.dir, INDEX_JSON) \in DOMAIN outFiles
      /\ Len(IndexItems(w.dir)) = Len(Listed(w))
      /\ \A i \in 1..Len(Listed(w)) :
           MatchItem(Listed(w)[i], TopOf(w, Listed(w)[i]), IndexItems(w.dir)[i])

\* the folder of a manifest, as the head of the paths below it
FolderPrefix(p) == SubSeq(p, 1, Len(p) - Len(INDEX_JSON))

\* no step writes or changes a file of a folder whose manifest is written
ManifestLast ==
  \A p \in DOMAIN outFiles :
    Basename(p) = INDEX_JSON =>
      \A q \in DOMAIN outFiles' :
        StartsWith(q, FolderPrefix(p)) => q \in DOMAIN outFiles /\ outFiles'[q] = outFiles[q]

ProgramAtHand == ParseAt(PackageFiles(Entry.content), ENTITY_JSON).v

\* the package at hand is that of a program that names a sound set
SoundSetNamed ==
  /\ ZipAtHand
  /\ GoodPackage(Entry.content)
  /\ TruthyStr(SpecOf(ProgramAtHand), "soundSetId")

\* the folder soundset/<id>/soundElement of the package at hand
ElementRoot ==
  PathJoin(PathJoin(FOLDER_SOUNDSET, SpecOf(ProgramAtHand).soundSetId), FOLDER_SOUNDELEMENT)

\* the records of the files <ElementRoot>/<folder>/entity.json that parse
ElementsFound ==
  {PackageFiles(Entry.content)[i].content.json :
     i \in {j \in 1..Len(PackageFiles(Entry.content)) :
              /\ StartsWith(PackageFiles(Entry.content)[j].name, ElementRoot \o SLASH)
              /\ Basename(PackageFiles(Entry.content)[j].name) = ENTITY_JSON
              /\ Dirname(Dirname(PackageFiles(Entry.content)[j].name)) = ElementRoot
              /\ parseJsonFile(PackageFiles(Entry.content)[j].content).ok}}

ElementsOf(bundle) ==
  {bundle.dependencies.soundElements[i] :
     i \in 1..Len(bundle.dependencies.soundElements)}

\* C21 as stated: the bundle of a program that names a sound set lists every
\* sound element of the package that parses.
C21_EveryElementBundled ==
  [][SoundSetNamed =>
       \A p \in NewBundles : ElementsFound \subseteq ElementsOf(outFiles'[p].json)]_vars

\* C21: the bundle of a program that names a sound set lists, when the
\* record of the sound set is itself in the bundle, exactly the sound
\* elements of the package that parse, built-in ones included, each once;
\* when the sound set is not in the bundle it lists no sound element.
C21_ElementsFollowSoundSet ==
  [][SoundSetNamed =>
       \A p \in NewBundles :
         IF Len(outFiles'[p].json.dependencies.soundSets) > 0
         THEN /\ ElementsOf(outFiles'[p].json) = ElementsFound
              /\ Len(outFiles'[p].json.dependencies.soundElements)
                   = Cardinality(ElementsFound)
         ELSE outFiles'[p].json.dependencies.soundElements = <<>>]_vars

\* the bundle of a package with a sound set of the user and two elements
\* that parse, one of them preInstalled
C21_Witness ==
  /\ pc = "done"
  /\ srcExists
  /\ src[1].name = N_PROGRAMS
  /\ FirstEntry.k = "file"
  /\ FirstEntry.content
       = ZipOf(Package([name |-> N_SHOW, personalityIds |-> <<ID_P1, ID_P1>>,
                        soundSetId |-> ID_S1], "userdefined"))
  /\ P_SHOW_BUNDLE \in DOMAIN outFiles
  /\ Len(outFiles[P_SHOW_BUNDLE].json.dependencies.soundElements) = 2
  /\ BuiltIn(outFiles[P_SHOW_BUNDLE].json.dependencies.soundElements[1])

(***************************************************************************)
(* The digests of the manifests                                            *)
(***************************************************************************)
\* the items of the manifests of the output that describe an entity
EntityStubs ==
  UNION {{outFiles[p].json.items[i] : i \in 1..Len(outFiles[p].json.items)} :
           p \in OutputDocs(INDEX_JSON)}
    \cap {item \in UNION {{outFiles[p].json.items[i] :
                             i \in 1..Len(outFiles[p].json.items)} :
                            p \in OutputDocs(INDEX_JSON)} : Has(item, "digest")}

\* C22: when the run is complete, the digest of every entity stub of every
\* manifest has a name that is not empty and is the name of the stub.
C22_DigestNamed ==
  pc = "done" =>
    \A item \in EntityStubs :
      /\ item.digest.name # <<>>
      /\ item.digest.name = item.name

\* C23: when the run is complete, the image reference of the digest of every
\* entity stub is the one of the entity document written at the path of the
\* stub, and is neither local nor generated.
C23_DigestImageRewritten ==
  pc = "done" =>
    \A item \in EntityStubs :
      /\ item.digest.imageSource.kind \notin {"local", "generated"}
      /\ PathJoin(item.path, ENTITY_JSON) \in DOMAIN outFiles =>
           item.digest.imageSource
             = decodeImageSource(SpecOf(outFiles[PathJoin(item.path, ENTITY_JSON)].json))

(***************************************************************************)
(* The files of the extracted sounds                                       *)
(***************************************************************************)
\* the elements of the record of the source that hold a payload: [k, i]
Payloads ==
  {ki \in (1..Len(audioKeys)) \X (1..4) :
     /\ Has(SpecOf(FirstEntry.content.json), audioKeys[ki[1]])
     /\ ki[2] <= Len(FirstEntry.content.json.spec[audioKeys[ki[1]]])
     /\ TruthyStr(FirstEntry.content.json.spec[audioKeys[ki[1]]][ki[2]],
                  "embeddedSoundBase64")}

SourceElement(ki) == FirstEntry.content.json.spec[audioKeys[ki[1]]][ki[2]]

WrittenElement(ki) == outFiles[AliceRecordPath].json.spec[audioKeys[ki[1]]][ki[2]]

\* the extension the file of an element is to have
DeclaredExtension(element) ==
  IF /\ TruthyStr(element, "embeddedSoundFileName")
     /\ Extname(element.embeddedSoundFileName) # <<>>
  THEN Extname(element.embeddedSoundFileName)
  ELSE EXT_M4A

\* the files of the output below sounds/ of the record, relative to its folder
SoundFiles ==
  {SubSeq(f, Len(AliceFolder) + 2, Len(f)) :
     f \in {g \in DOMAIN outFiles :
              StartsWith(g, PathJoin(AliceFolder, SOUNDS) \o SLASH)}}

\* rel = sounds/<elementId>/<finalFileName> is the file of the element: the
\* URL ends with it, its folder is the id, its name is the declared base name,
\* or the id, with the extension
FileOfElement(rel, source, written) ==
  /\ EndsWith(written.soundSource.url, SLASH \o rel)
  /\ Dirname(Dirname(rel)) = SOUNDS
  /\ TruthyStr(source, "id") => Basename(Dirname(rel)) = source.id
  /\ Basename(rel)
       = sanitizeForFilesystem(
           IF TruthyStr(source, "embeddedSoundFileName")
           THEN BasenameExt(source.embeddedSoundFileName,
                            Extname(source.embeddedSoundFileName))
           ELSE Basename(Dirname(rel)))
         \o DeclaredExtension(source)

\* C24: when the run is complete, every element of a SoundSet that held a
\* payload has a file sounds/<elementId>/<finalFileName> in the folder of the
\* record, named by the declared file name, or by the id, with the declared
\* extension, or .m4a when none is declared, and its URL ends with that path.
C24_SoundFileNamed ==
  SoundSetFirst =>
    \A ki \in Payloads :
      \E rel \in SoundFiles : FileOfElement(rel, SourceElement(ki), WrittenElement(ki))

\* C25: when the run is complete, every element of a SoundSet that held a
\* payload has an id in the written record, the id of the source when it has
\* one, and that id is the folder sounds/<elementId> of its file and of its
\* URL.
C25_ExtractedElementHasId ==
  SoundSetFirst =>
    \A ki \in Payloads :
      /\ TruthyStr(WrittenElement(ki), "id")
      /\ TruthyStr(SourceElement(ki), "id") => WrittenElement(ki).id = SourceElement(ki).id
      /\ \E rel \in SoundFiles :
           /\ EndsWith(WrittenElement(ki).soundSource.url, SLASH \o rel)
           /\ Basename(Dirname(rel)) = WrittenElement(ki).id

\* C25: when the run is complete, every element of a SoundSet that held a
\* payload keeps the id of the source when it has one, and that id is the
\* folder sounds/<elementId> of its file and of its URL; an element without
\* id is written without id, and the folder of its file is an identifier
\* that no element of the source has.
C25_ElementIdKeptNotAssigned ==
  SoundSetFirst =>
    \A ki \in Payloads :
      /\ Has(WrittenElement(ki), "id") = Has(SourceElement(ki), "id")
      /\ TruthyStr(SourceElement(ki), "id") => WrittenElement(ki).id = SourceElement(ki).id
      /\ \E rel \in SoundFiles :
           /\ EndsWith(WrittenElement(ki).soundSource.url, SLASH \o rel)
           /\ Dirname(Dirname(rel)) = SOUNDS
           /\ IF TruthyStr(SourceElement(ki), "id")
              THEN Basename(Dirname(rel)) = SourceElement(ki).id
              ELSE /\ \E n \in 0..ctr : Basename(Dirname(rel)) = generateUUID(n)
                   /\ \A other \in Payloads :
                        TruthyStr(SourceElement(other), "id")
                          => SourceElement(other).id # Basename(Dirname(rel))

\* a SoundSet with elements with and without id
C25_Witness ==
  /\ SoundSetFirst
  /\ FirstEntry.content = JsonFile(DOC_SOUNDS_ALL)
  /\ outFiles[AliceRecordPath].json.spec.newsBGM[1].id = ID_E1
  /\ ~Has(outFiles[AliceRecordPath].json.spec.jingleBGM[1], "id")
  /\ Cardinality(SoundFiles) >= 4

(***************************************************************************)
(* local-server.js: the static file server                                 *)
(***************************************************************************)
ROOT_DIR == <<"/", "s", "r", "v", "/", "d", "o", "c", "s">>

\* the files and the folders of the machine that serves
ServerFiles ==
  {<<"/", "s", "r", "v", "/", "d", "o", "c", "s", "/", "i", "n", "d", "e", "x", ".", "j", "s", "o", "n">>,
   <<"/", "s", "r", "v", "/", "d", "o", "c", "s", "/", "P", "e", "r", "s", "o", "n", "s", "/", "i", "n", "d", "e", "x", ".", "j", "s", "o", "n">>,
   <<"/", "s", "r", "v", "/", "s", "e", "c", "r", "e", "t", ".", "t", "x", "t">>,
   <<"/", "i", "n", "d", "e", "x", ".", "j", "s", "o", "n">>}

ServerDirs == {SLASH, <<"/", "s", "r", "v">>, ROOT_DIR, <<"/", "s", "r", "v", "/", "d", "o", "c", "s", "/", "P", "e", "r", "s", "o", "n", "s">>}

\* safeJoin: path.join(base, path.normalize("." + target))
safeJoin(base, target) == PathJoin(base, Normalize(DOT \o target))

\* the segments a request is made of
UrlSegments == {<<".", ".">>, DOT, <<"P", "e", "r", "s", "o", "n", "s">>, INDEX_JSON, <<"s", "e", "c", "r", "e", "t", ".", "t", "x", "t">>}

MaxUrlSegs == 3

\* req.url: a slash and segments joined by slashes
RECURSIVE UrlsOf(_)
UrlsOf(n) ==
  IF n = 0 THEN {SLASH}
  ELSE UrlsOf(n - 1)
         \cup {IF u = SLASH THEN u \o s ELSE u \o SLASH \o s :
                 u \in UrlsOf(n - 1), s \in UrlSegments}

Urls == UrlsOf(MaxUrlSegs)

\* the answer of the handler to a request: [status, file], file the path read
Answer(method, url) ==
  IF method = "OPTIONS" THEN [status |-> 204, file |-> <<>>]
  ELSE LET filePath == safeJoin(ROOT_DIR, IF url = SLASH THEN SLASH \o INDEX_JSON ELSE url)
       IN IF StripTrailingSlashes(filePath) \in ServerDirs
          THEN IF PathJoin(filePath, INDEX_JSON) \in ServerFiles
               THEN [status |-> 200, file |-> PathJoin(filePath, INDEX_JSON)]
               ELSE [status |-> 404, file |-> <<>>]
          ELSE IF filePath \in ServerFiles
          THEN [status |-> 200, file |-> filePath]
          ELSE [status |-> 404, file |-> <<>>]

\* the handler of http.createServer, with serveFile
Request ==
  /\ \E method \in {"GET", "OPTIONS"}, url \in Urls :
       served' = [method |-> method, url |-> url] @@ Answer(method, url)
  /\ UNCHANGED genVars
  /\ UNCHANGED admin

InitServe ==
  /\ srcExists = FALSE
  /\ src = <<>>
  /\ baseUrl = URL_X
  /\ now = 1000
  /\ pc = "serving"
  /\ stack = <<>>
  /\ outFiles = EmptyObject
  /\ outDirs = {}
  /\ scratch = {}
  /\ ctr = 0
  /\ prev = NoRun
  /\ served = NoRequest
  /\ admin = NoAdmin

NextServe == Request

SpecServe == InitServe /\ [][NextServe]_vars

\* C26: the file that the server reads for a request lies below ROOT_DIR.
C26_ServedBelowRoot ==
  served.status = 200 => StartsWith(served.file, ROOT_DIR \o SLASH)

(***************************************************************************)
(* metadata-admin-server.js.  A request body is given by its parts; the    *)
(* buffer of a file part is given by its length.                           *)
(***************************************************************************)
REPOSITORY_ROOT_DIR == <<"/", "r", "e", "p", "o">>

METADATA_FILENAME == REPO_METADATA_FILENAME

MAX_BANNER_SIZE == 524288

N_BANNER == <<"b", "a", "n", "n", "e", "r">>

EXT_IMG == <<".", "i", "m", "g">>

Includes(s, sub) ==
  \E i \in 1..(Len(s) - Len(sub) + 1) : SubSeq(s, i, i + Len(sub) - 1) = sub

RECURSIVE StripLeadingSlashes(_)
StripLeadingSlashes(p) ==
  IF p # <<>> /\ Head(p) = "/" THEN StripLeadingSlashes(Tail(p)) ELSE p

\* safeRelPath: the normalized path without leading slashes, "" when it
\* holds ".."
safeRelPath(rel) ==
  IF rel = <<>> THEN <<>>
  ELSE IF Includes(StripLeadingSlashes(Normalize(rel)), <<".", ".">>) THEN <<>>
  ELSE StripLeadingSlashes(Normalize(rel))

workingDirFor(rel) == PathJoin(REPOSITORY_ROOT_DIR, rel)

metadataPathFor(dirAbs) == PathJoin(dirAbs, METADATA_FILENAME)

\* readMetadata: the record of the file, {} when it is missing or no JSON
readMetadata(disk, dirAbs) ==
  IF /\ metadataPathFor(dirAbs) \in DOMAIN disk
     /\ parseJsonFile(disk[metadataPathFor(dirAbs)]).ok
  THEN parseJsonFile(disk[metadataPathFor(dirAbs)]).v
  ELSE EmptyObject

writeMetadata(disk, dirAbs, obj) == (metadataPathFor(dirAbs) :> JsonFile(obj)) @@ disk

FieldPart(fieldName, value) ==
  [part |-> "field", fieldName |-> fieldName, filename |-> <<>>, value |-> value, len |-> Len(value)]

FilePart(fieldName, filename, len) ==
  [part |-> "file", fieldName |-> fieldName, filename |-> filename, value |-> <<>>, len |-> len]

\* a part is a file when its disposition names a file
IsFile(p) == p.part = "file" /\ p.filename # <<>>

NoFile == [fieldName |-> "", filename |-> <<>>, len |-> 0]

\* parseMultipart: each text field with the value of its last part, and the
\* last of the file parts
parseMultipart(parts) ==
  [fields |->
     [f \in {parts[i].fieldName : i \in {j \in 1..Len(parts) : ~IsFile(parts[j])}} |->
        parts[CHOOSE i \in 1..Len(parts) :
                /\ ~IsFile(parts[i])
                /\ parts[i].fieldName = f
                /\ \A j \in (i + 1)..Len(parts) :
                     IsFile(parts[j]) \/ parts[j].fieldName # f].value],
   file |->
     IF \E i \in 1..Len(parts) : IsFile(parts[i])
     THEN LET last == CHOOSE i \in 1..Len(parts) :
                        IsFile(parts[i]) /\ \A j \in (i + 1)..Len(parts) : ~IsFile(parts[j])
          IN [fieldName |-> parts[last].fieldName,
              filename |-> Basename(parts[last].filename),
              len |-> parts[last].len]
     ELSE NoFile]

\* a variant of TooLarge that accepts every banner
TooLarge_Never(file) == FALSE

\* file.buffer.length > MAX_BANNER_SIZE
TooLarge(file) == file.len > MAX_BANNER_SIZE

\* the metadata of the save handler before the banner is looked at
Updated(fields, existing, clock) ==
  [name |-> IF TruthyStr(fields, "name") THEN fields.name ELSE <<>>,
   description |-> IF TruthyStr(fields, "description") THEN fields.description ELSE <<>>,
   lastModified |-> NatToStr(clock)]
    @@ (IF TruthyStr(existing, "bannerImage")
        THEN [bannerImage |-> existing.bannerImage] ELSE EmptyObject)

\* "banner" + (path.extname(file.filename) || ".img").toLowerCase()
SaveName(file) ==
  N_BANNER \o toLowerCase(IF Extname(file.filename) # <<>>
                           THEN Extname(file.filename) ELSE EXT_IMG)

\* the callback of the save handler on the parsed body: [disk, status]
Saved(disk, absDir, parsed, clock) ==
  IF parsed.file.fieldName = "banner" /\ parsed.file.len > 0
  THEN IF TooLarge(parsed.file)
       THEN [disk |-> disk, status |-> 413]
       ELSE [disk |-> writeMetadata(
                        (PathJoin(absDir, SaveName(parsed.file))
                           :> [t |-> "banner", len |-> parsed.file.len]) @@ disk,
                        absDir,
                        With(Updated(parsed.fields, readMetadata(disk, absDir), clock),
                             "bannerImage", SaveName(parsed.file))),
             status |-> 200]
  ELSE [disk |-> writeMetadata(disk, absDir,
                               Updated(parsed.fields, readMetadata(disk, absDir), clock)),
        status |-> 200]

\* the content types of a request: multipart with a boundary, multipart
\* without one, and another type
ContentTypes == {"multipart/form-data; boundary=x", "multipart/form-data", "text/plain"}

\* POST /save
saveHandler(disk, request, clock) ==
  IF request.ctype = "text/plain" THEN [disk |-> disk, status |-> 400]
  ELSE IF request.ctype = "multipart/form-data" THEN [disk |-> disk, status |-> 400]
  ELSE Saved(disk, workingDirFor(safeRelPath(request.dir)), parseMultipart(request.parts), clock)

\* the parts of the requests explored
Parts ==
  {FieldPart("name", N_ALICE),
   FilePart("banner", <<"b", ".", "P", "N", "G">>, MAX_BANNER_SIZE + 1),
   FilePart("banner", <<"b", ".", "P", "N", "G">>, MAX_BANNER_SIZE),
   FilePart("banner", <<"b">>, 1),
   FilePart("banner", <<>>, 0),
   FilePart("photo", <<"b", ".", "P", "N", "G">>, 1)}

PartLists ==
  {<<>>} \cup {<<p>> : p \in Parts} \cup {<<pq[1], pq[2]>> : pq \in {x \in Parts \X Parts : x[1] # x[2]}}

\* the values of the query parameter dir, each of them the folder Persons,
\* which exists
DirQueries == {N_PERSONS, <<"/", ".", ".", "/", "P", "e", "r", "s", "o", "n", "s">>}

SaveRequests ==
  {[method |-> "POST", path |-> "/save", dir |-> d, ctype |-> "multipart/form-data; boundary=x",
    parts |-> ps, file |-> <<>>] : d \in DirQueries, ps \in PartLists}
    \cup {[method |-> "POST", path |-> "/save", dir |-> <<>>, ctype |-> c, parts |-> <<>>,
           file |-> <<>>] : c \in {"multipart/form-data", "text/plain"}}

\* GET / and GET /asset, and a path the server does not know
GetRequests ==
  {[method |-> "GET", path |-> pa, dir |-> <<>>, ctype |-> "", parts |-> <<>>, file |-> <<>>] :
     pa \in {"/", "/other"}}
    \cup {[method |-> "GET", path |-> "/asset", dir |-> N_PERSONS, ctype |-> "",
           parts |-> <<>>, file |-> f] : f \in {<<>>, <<"b", "a", "n", "n", "e", "r", ".", "p", "n", "g">>, <<".", ".", "/", "x">>}}

\* the status of the answer to a GET request
Got(disk, request) ==
  IF request.path = "/asset"
  THEN IF \/ safeRelPath(request.file) = <<>>
          \/ ~StartsWith(PathJoin(workingDirFor(safeRelPath(request.dir)),
                                  safeRelPath(request.file)),
                         workingDirFor(safeRelPath(request.dir)))
          \/ PathJoin(workingDirFor(safeRelPath(request.dir)), safeRelPath(request.file))
               \notin DOMAIN disk
       THEN 404 ELSE 200
  ELSE IF request.path = "/" THEN 200
  ELSE 404

Save ==
  /\ pc = "serving"
  /\ \E request \in SaveRequests :
       admin' = [request |-> request] @@ saveHandler(admin.disk, request, now)
  /\ UNCHANGED genVars
  /\ UNCHANGED served

Get ==
  /\ pc = "serving"
  /\ \E request \in GetRequests :
       admin' = [admin EXCEPT !.request = request, !.status = Got(admin.disk, request)]
  /\ UNCHANGED genVars
  /\ UNCHANGED served

\* the repositories the server starts on: the folder Persons with no
\* metadata, with metadata that is no JSON, or with metadata and a banner
AdminDisks ==
  {EmptyObject,
   (metadataPathFor(workingDirFor(N_PERSONS)) :> RawBytes),
   (metadataPathFor(workingDirFor(N_PERSONS))
      :> JsonFile([name |-> N_BOB, description |-> <<>>, lastModified |-> NatToStr(5),
                   bannerImage |-> <<"b", "a", "n", "n", "e", "r", ".", "p", "n", "g">>]))
     @@ (PathJoin(workingDirFor(N_PERSONS), <<"b", "a", "n", "n", "e", "r", ".", "p", "n", "g">>) :> [t |-> "banner", len |-> 1])}

InitAdmin ==
  /\ srcExists = FALSE
  /\ src = <<>>
  /\ baseUrl = URL_X
  /\ now = 1000
  /\ pc = "serving"
  /\ stack = <<>>
  /\ outFiles = EmptyObject
  /\ outDirs = {}
  /\ scratch = {}
  /\ ctr = 0
  /\ prev = NoRun
  /\ served = NoRequest
  /\ admin \in {[disk |-> d, status |-> 0, request |-> <<>>] : d \in AdminDisks}

NextAdmin ==
  \/ Save
  \/ Get

SpecAdmin == InitAdmin /\ [][NextAdmin]_vars

\* the step is the answer to a save request in multipart form
SaveStep ==
  /\ admin'.request # <<>>
  /\ admin'.request.path = "/save"
  /\ admin'.request.ctype = "multipart/form-data; boundary=x"

\* a part of the request is a banner that exceeds the limit
BannerSent(parts) ==
  \E i \in 1..Len(parts) :
    IsFile(parts[i]) /\ parts[i].fieldName = "banner" /\ parts[i].len > MAX_BANNER_SIZE

\* C27 as stated: a save request with a banner part of more than 512 KB is
\* answered 413 and leaves the disk as it is.
C27_OversizedBannerRejected ==
  [][(SaveStep /\ BannerSent(admin'.request.parts))
       => (admin'.status = 413 /\ admin'.disk = admin.disk)]_vars

\* the last file part of the request is a banner that exceeds the limit
LastFileOversized(parts) ==
  /\ parseMultipart(parts).file.fieldName = "banner"
  /\ parseMultipart(parts).file.len > MAX_BANNER_SIZE

\* C27: a save request whose last file part is a banner of more than 512 KB
\* is answered 413 and leaves the disk as it is, and no step writes a banner
\* of more than 512 KB.
C27_LastOversizedBannerRejected ==
  [][/\ (SaveStep /\ LastFileOversized(admin'.request.parts))
          => (admin'.status = 413 /\ admin'.disk = admin.disk)
     /\ \A p \in DOMAIN admin'.disk :
          admin'.disk[p].t = "banner" => admin'.disk[p].len <= MAX_BANNER_SIZE]_vars

\* an oversized banner sent for a folder that has metadata and a banner
C27_Witness ==
  /\ admin.status = 413
  /\ admin.request.dir = N_PERSONS
  /\ admin.request.parts
       = <<FieldPart("name", N_ALICE), FilePart("banner", <<"b", ".", "P", "N", "G">>, MAX_BANNER_SIZE + 1)>>
  /\ metadataPathFor(workingDirFor(N_PERSONS)) \in DOMAIN admin.disk
  /\ PathJoin(workingDirFor(N_PERSONS), <<"b", "a", "n", "n", "e", "r", ".", "p", "n", "g">>) \in DOMAIN admin.disk

(***************************************************************************)
(* The outputs of sibling entries                                          *)
(***************************************************************************)
\* the folder the package at hand is moved to
PackageFolder ==
  PathJoin(Top.targetDir,
           sanitizeForFilesystem(
             ShownName(parseProgramDigest(SpecOf(ProgramAtHand), ctr, now), Entry.name)))

\* the step replaces a file that an earlier entry of the run put into the
\* output
Overwrites ==
  \E p \in DOMAIN outFiles \cap DOMAIN outFiles' : outFiles'[p] # outFiles[p]

\* the package at hand is to be moved to a folder that an earlier entry made
Occupied ==
  /\ ZipAtHand
  /\ GoodPackage(Entry.content)
  /\ PackageFolder \in outDirs \cup DOMAIN outFiles

\* C28: no entry of the walk replaces a file that an earlier entry put into
\* the output, and no package is to be moved to a folder that an earlier
\* entry made.
C28_SiblingsApart == [][Walking => (~Overwrites /\ ~Occupied)]_vars

(***************************************************************************)
(* The image of an unpacked program                                        *)
(***************************************************************************)
\* the folders of the output that hold a program and its bundle
ProgramFolders ==
  {Dirname(p) : p \in {q \in OutputDocs(ENTITY_DEPS_JSON) :
                          PathJoin(Dirname(q), ENTITY_JSON) \in OutputDocs(ENTITY_JSON)}}

ProgramWritten(dir) == SpecOf(outFiles[PathJoin(dir, ENTITY_JSON)].json)

BundleWritten(dir) == SpecOf(outFiles[PathJoin(dir, ENTITY_DEPS_JSON)].json)

\* the program of the folder has an image that the run made remote
ImageRewritten(dir) ==
  /\ Has(ProgramWritten(dir), "imageSource")
  /\ ProgramWritten(dir).imageSource.kind = "remote"

\* C29: when the run is complete, the image URL of the program in entity.json
\* of an unpacked package is the one of the program in entity+deps.json, and
\* it is a URL below the folder of the program.
C29_ProgramImageSame ==
  pc = "done" =>
    \A dir \in ProgramFolders :
      ImageRewritten(dir) =>
        /\ Has(BundleWritten(dir), "imageSource")
        /\ BundleWritten(dir).imageSource = ProgramWritten(dir).imageSource
        /\ StartsWith(ProgramWritten(dir).imageSource.url,
                      baseUrl \o SLASH \o dir \o SLASH)

(***************************************************************************)
(* The files that the rewritten image references designate                 *)
(***************************************************************************)
\* the record refers to an image, local or generated, that is one of the
\* files beside it
LocalImage(doc, entries) ==
  /\ Has(SpecOf(doc), "imageSource")
  /\ SpecOf(doc).imageSource.kind \in {"local", "generated"}
  /\ TruthyStr(SpecOf(doc).imageSource, "url")
  /\ ExistsIn(entries, SpecOf(doc).imageSource.url)

\* the first entry is an entity folder whose record refers to a file of it
ImageInFolder ==
  /\ srcExists
  /\ src[1].k = "dir"
  /\ IsEntityFolder(FirstEntry)
  /\ EntityJsonOf(FirstEntry.entries).ok
  /\ LocalImage(EntityJsonOf(FirstEntry.entries).v, FirstEntry.entries)

\* the first entry is a package whose program refers to a file beside it
ImageInPackage ==
  /\ srcExists
  /\ src[1].k = "dir"
  /\ IsPackage(FirstEntry, src[1].name)
  /\ GoodPackage(FirstEntry.content)
  /\ LocalImage(ParseAt(PackageFiles(FirstEntry.content), ENTITY_JSON).v,
                PackageFiles(FirstEntry.content))

\* the path below the output root that a URL of the base URL designates
PathOfUrl(url) == StripLeadingSlashes(SubSeq(url, Len(baseUrl) + 1, Len(url)))

\* the image URL of the record written at p designates a file of the output
Designated(p) ==
  /\ p \in OutputDocs(ENTITY_JSON)
  /\ Has(SpecOf(outFiles[p].json), "imageSource") \/ HasNestedImage(SpecOf(outFiles[p].json))
  /\ PathOfUrl(ImageUrl(SpecOf(outFiles[p].json))) \in DOMAIN outFiles

\* C30: when the run is complete, the image URL that replaced a local or
\* generated reference to a file beside the record, in an entity folder or in
\* a package, designates a file of the output.
C30_RewrittenImageExists ==
  pc = "done" =>
    /\ ImageInFolder =>
         Designated(PathJoin(PathJoin(src[1].name, sanitizeForFilesystem(FirstEntry.name)),
                             ENTITY_JSON))
    /\ ImageInPackage => \A dir \in ProgramFolders : Designated(PathJoin(dir, ENTITY_JSON))

====
